---- MODULE Spec2Model ----
(***************************************************************************)
(* State-machine model of the okinoko in-a-row game contract.              *)
(*                                                                         *)
(* The host key/value store is modelled key family by key family:          *)
(*   g_count, g_<id>_meta, g_<id>_state, g_<id>_moves, g_<id>_move_<n>,    *)
(*   g_<id>_swap2.                                                         *)
(* Every entry point is one action.  A call that aborts is discarded by    *)
(* the host, so it is no transition: an action is enabled exactly when     *)
(* every require() of the call passes.                                     *)
(*                                                                         *)
(* Block timestamps are carried as unix seconds (the value                 *)
(* parseISO8601ToUnix yields for the host's ISO string).  Intent limits    *)
(* are carried as the exact decimal value in thousandths; intentAmount     *)
(* models what uint64(float64 * 1000) makes of it.                         *)
(***************************************************************************)
EXTENDS Integers, Sequences, FiniteSets, TLC

\* ------------------------------------------------------------------ bounds

MaxGames == 2          \* ids handed out by g_create in one run
MaxChoice == 2         \* a mover picks among the first MaxChoice empty pool cells
MaxTicks == 2          \* block-timestamp advances in a "clock" run
MaxBoardMoves == 9     \* stones per game in a "board" run
MaxTimedMoves == 3     \* stones per game in a "clock" run
MaxMultiMoves == 1     \* stones per game in a "multi" run
MaxLineStones == 6     \* stones of one colour on the board when a "line" run starts
MaxLineMoves == 2      \* stones placed in a "line" run

\* ------------------------------------------------------- program constants

TicTacToe == 1
ConnectFour == 2
Gomoku == 3
TicTacToe5 == 4
Squava == 5

Empty == 0
X == 1
O == 2

WaitingForPlayer == 0
InProgress == 1
Finished == 2

swap2PhaseNone == 0
swap2PhaseOpening == 1
swap2PhaseSwapChoice == 2
swap2PhaseExtraPlace == 3
swap2PhaseColorChoice == 4

gameTimeout == 604800

\* Block timestamp of the first call ("2025-09-03T00:00:01").
StartTime == 1756857601

\* ------------------------------------------------------------- input sets

Addr == {"alice", "bob", "carol"}
Assets == {"hive", "hbd"}
GameTypes == {TicTacToe, ConnectFour, Gomoku, TicTacToe5, Squava}
GameIds == 0 .. (MaxGames - 1)

Nil == "nil"                 \* a nil pointer (address, asset)
None == << >>                \* a nil *uint64, a missing record
Some(v) == << v >>

NoIntent == [token |-> Nil, limit |-> 0]
\* transfer.allow intents: limit is the decimal value in thousandths
CreateIntents == {NoIntent, [token |-> "hive", limit |-> 1000]}
JoinIntents == {NoIntent,
                [token |-> "hbd", limit |-> 1200],
                [token |-> "hive", limit |-> 999],
                [token |-> "hive", limit |-> 1000],
                [token |-> "hive", limit |-> 1001],
                [token |-> "hive", limit |-> 1200]}
FmcChoices == {0, 1, 200}    \* "", "0.001", "0.2" through parseFixedPoint3

\* Limits l (in thousandths, below 3000) whose float64 product
\* ParseFloat(l/1000) * 1000 falls just below l, so that uint64() yields l-1:
\* 1.001 * 1000 = 1000.9999999999999.
LossyLimits == {1001, 1003, 1005, 1007, 1009, 1011, 1013, 1015, 1017, 1019,
                1021, 1023, 2002, 2006, 2010, 2014, 2018, 2022, 2026, 2030,
                2034, 2038, 2042, 2046}

\* uint64(ta.Limit * 1000)
intentAmount(limit) == IF limit \in LossyLimits THEN limit - 1 ELSE limit

\* The cells a mover may name, per game type, in order of preference.
CellPool(gt) ==
  CASE gt = TicTacToe ->
         << <<0,0>>, <<0,2>>, <<0,1>>, <<1,0>>, <<1,2>>, <<1,1>>,
            <<2,0>>, <<2,1>>, <<2,2>> >>
    [] gt = ConnectFour -> << <<0,0>>, <<0,1>> >>
    [] gt = Gomoku ->
         << <<7,7>>, <<7,8>>, <<8,7>>, <<9,8>>, <<6,7>>, <<10,8>>, <<5,5>> >>
    [] gt = TicTacToe5 ->
         << <<1,1>>, <<1,2>>, <<2,1>>, <<2,2>>, <<3,1>>, <<2,3>>, <<4,1>> >>
    [] gt = Squava ->
         << <<0,0>>, <<1,0>>, <<0,1>>, <<1,1>>, <<0,3>>, <<1,3>>, <<0,2>>,
            <<1,2>> >>

\* --------------------------------------------------------------- variables

VARIABLES
  gcount,     \* g_count
  meta,       \* g_<id>_meta: None or Some(the record saveMetaBinary writes)
  gstate,     \* g_<id>_state: None or Some(the record saveStateBinary writes)
  mvcount,    \* g_<id>_moves
  mvrec,      \* g_<id>_move_<n>: a function from the written n to the record
  swap2,      \* g_<id>_swap2: None or Some(the six bytes)
  now,        \* block.timestamp of the next call
  ticks,      \* timestamp advances so far
  prof,       \* the run's input profile, fixed by Init (see Profiles)
  drawn,      \* HiveDraw totals: game id -> <<sender, asset>> -> amount
  paid,       \* HiveTransfer totals: game id -> <<to, asset>> -> amount
  born,       \* block.timestamp of the g_create call of each game
  joined,     \* block.timestamp of the g_join call of each game, 0 before
  bought,     \* how each game was joined: "open", "pari" or "fmp"
  last        \* the call that made the last transition

vars == << gcount, meta, gstate, mvcount, mvrec, swap2, now, ticks, prof,
           drawn, paid, born, joined, bought, last >>

\* ------------------------------------------------------------ pure helpers

boardDimensions(gt) ==
  CASE gt = TicTacToe -> << 3, 3 >>
    [] gt = TicTacToe5 -> << 5, 5 >>
    [] gt = Squava -> << 5, 5 >>
    [] gt = ConnectFour -> << 6, 7 >>
    [] gt = Gomoku -> << 15, 15 >>

Cells(gt) ==
  (0 .. (boardDimensions(gt)[1] - 1)) \X (0 .. (boardDimensions(gt)[2] - 1))

\* nextToPlay: even -> X, odd -> O
nextToPlay(moves) == IF moves % 2 = 0 THEN X ELSE O

\* a turn rule that lets O start
computeCurrentTurnFlipped(mvCount) == IF mvCount % 2 = 1 THEN X ELSE O

\* computeCurrentTurn: X always starts, then alternate
computeCurrentTurn(mvCount) == IF mvCount % 2 = 1 THEN O ELSE X

isPlayer(g, addr) ==
  \/ addr = g.PlayerX
  \/ (g.PlayerO # Nil /\ addr = g.PlayerO)

\* marks handed out by who created and who joined, not by the stored roles
requireSenderMarkByArrival(g, sender) ==
  IF sender = g.Creator THEN X
  ELSE IF g.Opponent # Nil /\ sender = g.Opponent THEN O
  ELSE Empty

\* requireSenderMark; Empty stands for the abort "invalid player"
requireSenderMark(g, sender) ==
  IF sender = g.PlayerX THEN X
  ELSE IF g.PlayerO # Nil /\ sender = g.PlayerO THEN O
  ELSE Empty

\* readMoveCount: 0 if the key is missing
readMoveCount(id) == mvcount[id]

\* readMoveBinary: row, col and the absolute timestamp createdAt + delta
readMoveBinary(id, n, createdAt) ==
  [row |-> mvrec[id][n].row, col |-> mvrec[id][n].col,
   ts |-> createdAt + mvrec[id][n].delta]

\* the require() of readMoveBinary: "move n missing"
moveStored(id, n) == n \in DOMAIN mvrec[id]

\* loadGame aborts on a missing meta record or a missing last move
canLoad(id) ==
  /\ id \in GameIds
  /\ meta[id] # None
  /\ (readMoveCount(id) > 0 => moveStored(id, readMoveCount(id)))

\* loadGame: meta, then state if present, then LastMoveAt from the last move
loadGame(id) ==
  LET m == meta[id][1]
      hasState == gstate[id] # None
      s == gstate[id][1]
      count == readMoveCount(id)
  IN [ID |-> id,
      Type |-> m.type,
      Creator |-> m.creator,
      Opponent |-> m.opponent,
      PlayerX |-> IF hasState THEN s.playerX ELSE m.creator,
      PlayerO |-> IF hasState THEN s.playerO ELSE Nil,
      Status |-> IF hasState THEN s.status ELSE WaitingForPlayer,
      Winner |-> IF hasState THEN s.winner ELSE Nil,
      GameAsset |-> m.asset,
      GameBetAmount |-> m.bet,
      CreatedAt |-> m.createdAt,
      LastMoveAt |-> IF count > 0
                     THEN readMoveBinary(id, count, m.createdAt).ts
                     ELSE m.createdAt,
      FirstMoveCosts |-> m.fmc]

\* a meta record that leaves the opponent out
metaRecordNoOpponent(g) ==
  [type |-> g.Type, creator |-> g.Creator, opponent |-> Nil,
   asset |-> g.GameAsset, bet |-> g.GameBetAmount, fmc |-> g.FirstMoveCosts,
   createdAt |-> g.CreatedAt]

\* the record saveMetaBinary writes
metaRecord(g) ==
  [type |-> g.Type, creator |-> g.Creator, opponent |-> g.Opponent,
   asset |-> g.GameAsset, bet |-> g.GameBetAmount, fmc |-> g.FirstMoveCosts,
   createdAt |-> g.CreatedAt]

\* a state record that names the winner by role letter, not by address
stateRecordWinnerByRole(g) ==
  [status |-> g.Status,
   winner |-> IF g.Winner = Nil THEN Nil
              ELSE IF g.Winner = g.PlayerX THEN "x" ELSE "o",
   playerX |-> g.PlayerX, playerO |-> g.PlayerO]

\* the record saveStateBinary writes
stateRecord(g) ==
  [status |-> g.Status, winner |-> g.Winner, playerX |-> g.PlayerX,
   playerO |-> g.PlayerO]

\* initNewGame: CreatedAt is not among the fields it sets, so it stays 0
initNewGame(gt, sender, ts, gameId, fmc) ==
  [ID |-> gameId, Type |-> gt, Creator |-> sender, Opponent |-> Nil,
   PlayerX |-> sender, PlayerO |-> Nil, Status |-> WaitingForPlayer,
   Winner |-> Nil, GameAsset |-> Nil, GameBetAmount |-> None,
   CreatedAt |-> 0, LastMoveAt |-> ts, FirstMoveCosts |-> Some(fmc)]

\* ------------------------------------------------------------------ board

RECURSIVE replayMoves(_, _, _, _)
\* the loop of reconstructBoard: move i is X when i is odd, O when even
replayMoves(recs, grid, i, count) ==
  IF i > count THEN grid
  ELSE LET r == recs[i].row
           c == recs[i].col
           ch == IF i % 2 = 1 THEN X ELSE O
       IN replayMoves(recs, [grid EXCEPT ![<< r, c >>] = ch], i + 1, count)

\* reconstructBoard over the move keys recs and the move count
reconstructFrom(gt, recs, count) ==
  replayMoves(recs, [p \in Cells(gt) |-> Empty], 1, count)

\* reconstructBoard aborts when a record 1..count is missing
canReconstruct(id) == \A i \in 1 .. readMoveCount(id) : moveStored(id, i)

reconstructBoard(g) ==
  reconstructFrom(g.Type, mvrec[g.ID], readMoveCount(g.ID))

RECURSIVE runLength(_, _, _, _, _, _)
\* cells holding mark from (r, c) on, stepping by (dr, dc)
runLength(grid, r, c, dr, dc, mark) ==
  IF << r, c >> \in DOMAIN grid /\ grid[<< r, c >>] = mark
  THEN 1 + runLength(grid, r + dr, c + dc, dr, dc, mark)
  ELSE 0

Dirs == { << 1, 0 >>, << 0, 1 >>, << 1, 1 >>, << 1, -1 >> }

\* one direction of checkPatternGrid
lineWins(grid, row, col, d, winLen, exactLen) ==
  LET mark == grid[<< row, col >>]
      fwd == runLength(grid, row + d[1], col + d[2], d[1], d[2], mark)
      bwd == runLength(grid, row - d[1], col - d[2], -d[1], -d[2], mark)
      count == 1 + fwd + bwd
      fr == row + (fwd + 1) * d[1]
      fc == col + (fwd + 1) * d[2]
      br == row - (bwd + 1) * d[1]
      bc == col - (bwd + 1) * d[2]
      beyond(r, c) == << r, c >> \in DOMAIN grid /\ grid[<< r, c >>] = mark
  IN IF ~exactLen THEN count >= winLen
     ELSE count = winLen /\ ~beyond(fr, fc) /\ ~beyond(br, bc)

checkPatternGrid(grid, row, col, winLen, exactLen) ==
  /\ grid[<< row, col >>] # Empty
  /\ \E d \in Dirs : lineWins(grid, row, col, d, winLen, exactLen)

\* dropDiscGrid: the lowest empty row of the column, -1 when it is full
dropDiscGrid(grid, rows, col) ==
  LET free == { r \in 0 .. (rows - 1) : grid[<< r, col >>] = Empty }
  IN IF free = {} THEN -1 ELSE CHOOSE r \in free : \A q \in free : q <= r

\* variant: Gomoku is won by five or more in a row
winLengthAtLeast(gt) ==
  CASE gt = TicTacToe -> [len |-> 3, exact |-> FALSE]
    [] gt = TicTacToe5 -> [len |-> 4, exact |-> FALSE]
    [] gt = Squava -> [len |-> 4, exact |-> FALSE]
    [] gt = ConnectFour -> [len |-> 4, exact |-> FALSE]
    [] gt = Gomoku -> [len |-> 5, exact |-> FALSE]

\* variant: three in a row wins every game type
winLengthThree(gt) == [len |-> 3, exact |-> FALSE]

winLengthFor(gt) ==
  CASE gt = TicTacToe -> [len |-> 3, exact |-> FALSE]
    [] gt = TicTacToe5 -> [len |-> 4, exact |-> FALSE]
    [] gt = Squava -> [len |-> 4, exact |-> FALSE]
    [] gt = ConnectFour -> [len |-> 4, exact |-> FALSE]
    [] gt = Gomoku -> [len |-> 5, exact |-> TRUE]

\* a placement that does not look at what the cell holds
appliedCellAnywhere(g, grid, row, col) ==
  IF g.Type = ConnectFour
  THEN LET r == dropDiscGrid(grid, boardDimensions(g.Type)[1], col)
       IN IF r >= 0 THEN << r, col >> ELSE None
  ELSE << row, col >>

\* applyMoveOnGrid: the cell actually taken, or None for an abort
\* ("cell occupied", "column full")
appliedCell(g, grid, row, col) ==
  IF g.Type = ConnectFour
  THEN LET r == dropDiscGrid(grid, boardDimensions(g.Type)[1], col)
       IN IF r >= 0 THEN << r, col >> ELSE None
  ELSE IF grid[<< row, col >>] = Empty THEN << row, col >> ELSE None

\* ------------------------------------------------------- bounded move input

playable(gt, grid, cell) ==
  IF gt = ConnectFour
  THEN \E r \in 0 .. (boardDimensions(gt)[1] - 1) : grid[<< r, cell[2] >>] = Empty
  ELSE grid[cell] = Empty

RECURSIVE firstPlayable(_, _, _, _, _)
firstPlayable(gt, grid, pool, i, k) ==
  IF k = 0 \/ i > Len(pool) THEN {}
  ELSE IF playable(gt, grid, pool[i])
       THEN {pool[i]} \cup firstPlayable(gt, grid, pool, i + 1, k - 1)
       ELSE firstPlayable(gt, grid, pool, i + 1, k)

\* the cells a call may name in this state
Candidates(gt, grid) == firstPlayable(gt, grid, CellPool(gt), 1, MaxChoice)

\* a cell a call may name although it can take no stone: the first pool cell
\* that is occupied (Connect Four: whose column is full), if there is one
firstTaken(gt, grid) ==
  LET pool == CellPool(gt)
      idx == { i \in 1 .. Len(pool) : ~playable(gt, grid, pool[i]) }
  IN IF idx = {} THEN {}
     ELSE { pool[CHOOSE i \in idx : \A j \in idx : i <= j] }

\* ----------------------------------------------------------- run profiles
\* A run is one of three kinds, so that the reachable states are the sum and
\* not the product of the three explorations:
\*   "board": one game, the clock stands still, at most MaxBoardMoves stones;
\*   "clock": one game, the clock advances, at most MaxTimedMoves stones;
\*   "multi": up to MaxGames games, at most MaxMultiMoves stones each.
Profiles == {"board", "clock", "multi"}

GamesCap == IF prof = "multi" THEN MaxGames ELSE 1
TicksCap == IF prof = "clock" THEN MaxTicks ELSE 0
StonesCap ==
  CASE prof = "board" -> MaxBoardMoves
    [] prof = "clock" -> MaxTimedMoves
    [] prof = "multi" -> MaxMultiMoves

\* a timestamp advance is one second or the whole timeout window
TickSteps == {1, gameTimeout}

\* ---------------------------------------------------------------- ledger

NoFunds == [id \in GameIds |-> [k \in Addr \X Assets |-> 0]]

RECURSIVE book(_, _, _)
\* add a sequence of [who, amt, asset] to the totals of game id
book(ledger, id, moves) ==
  IF moves = << >> THEN ledger
  ELSE LET h == Head(moves)
       IN book([ledger EXCEPT ![id][<< h.who, h.asset >>] = @ + h.amt],
               id, Tail(moves))

Tag(n, t) == [i \in 1 .. n |-> t]

\* what swapPlaceOpening or swapAddExtra and the loop of SwapMove do for one
\* tuple, n tuples long: phase, coordinate and cell checks, the move record,
\* the move count, the quota check, the placement event, the opening record,
\* the swap event
stoneEffects(n) ==
  LET one == << "check", "move", "moves", "check", "event", "swap2", "event" >>
  IN [i \in 1 .. (n * Len(one)) |-> one[((i - 1) % Len(one)) + 1]]

\* a pot that is never doubled
transferPotSingle(g, sendTo) ==
  IF g.GameAsset # Nil /\ g.GameBetAmount # None
  THEN << [who |-> sendTo, amt |-> g.GameBetAmount[1], asset |-> g.GameAsset] >>
  ELSE << >>

\* a pot that is always doubled
transferPotDoubled(g, sendTo) ==
  IF g.GameAsset # Nil /\ g.GameBetAmount # None
  THEN << [who |-> sendTo, amt |-> g.GameBetAmount[1] * 2,
           asset |-> g.GameAsset] >>
  ELSE << >>

\* transferPot: the pot goes to sendTo, doubled once an opponent is on meta
transferPot(g, sendTo) ==
  IF g.GameAsset # Nil /\ g.GameBetAmount # None
  THEN << [who |-> sendTo,
           amt |-> IF g.Opponent # Nil THEN g.GameBetAmount[1] * 2
                   ELSE g.GameBetAmount[1],
           asset |-> g.GameAsset] >>
  ELSE << >>

\* a split that pays both halves to PlayerX
splitPotToX(g) ==
  IF g.GameAsset # Nil /\ g.GameBetAmount # None /\ g.PlayerO # Nil
  THEN << [who |-> g.PlayerX, amt |-> g.GameBetAmount[1], asset |-> g.GameAsset],
          [who |-> g.PlayerX, amt |-> g.GameBetAmount[1], asset |-> g.GameAsset] >>
  ELSE << >>

\* splitPot: bet to each of PlayerX and PlayerO
splitPot(g) ==
  IF g.GameAsset # Nil /\ g.GameBetAmount # None /\ g.PlayerO # Nil
  THEN << [who |-> g.PlayerX, amt |-> g.GameBetAmount[1], asset |-> g.GameAsset],
          [who |-> g.PlayerO, amt |-> g.GameBetAmount[1], asset |-> g.GameAsset] >>
  ELSE << >>

\* the longest name, address or asset saveMetaBinary stores, in bytes
nameLimit == 255

\* the names a caller gives a game, by their length in bytes
NamesOffered == {8, nameLimit + 1}

\* the length checks of saveMetaBinary, in the order they run: name, creator,
\* opponent when set, asset when set
metaChecks(g) ==
  << "check", "check" >>
  \o (IF g.Opponent # Nil THEN << "check" >> ELSE << >>)
  \o (IF g.GameAsset # Nil THEN << "check" >> ELSE << >>)

\* the length checks of appendString16 in saveStateBinary: winner when set,
\* PlayerX, PlayerO when set
stateChecks(g) ==
  (IF g.Winner # Nil THEN << "check" >> ELSE << >>)
  \o << "check" >>
  \o (IF g.PlayerO # Nil THEN << "check" >> ELSE << >>)

\* ---------------------------------------------------------------- g_create

\* applyOptionalBetOnCreate: the first transfer.allow becomes the bet
applyOptionalBetOnCreate(g, sender, intent) ==
  IF intent # NoIntent
  THEN [ok |-> intent.token \in Assets,
        g |-> [g EXCEPT !.GameAsset = intent.token,
                        !.GameBetAmount = Some(intentAmount(intent.limit))],
        draws |-> << [who |-> sender, amt |-> intentAmount(intent.limit),
                      asset |-> intent.token] >>]
  ELSE [ok |-> TRUE, g |-> g, draws |-> << >>]

\* a create that takes the id of the game before it
CreateGameOnLastId(sender, gt, name, fmc, intent) ==
  /\ gcount < GamesCap
  /\ gt \in GameTypes
  /\ LET id == IF gcount > 0 THEN gcount - 1 ELSE 0
         ts == now
         bet == applyOptionalBetOnCreate(
                  initNewGame(gt, sender, ts, id, fmc), sender, intent)
         g == bet.g
     IN /\ bet.ok
        /\ (fmc > 0 => g.GameAsset # Nil)
        /\ name <= nameLimit
        /\ meta' = [meta EXCEPT ![id] = Some(metaRecord(g))]
        /\ gcount' = gcount + 1
        /\ drawn' = book(drawn, id, bet.draws)
        /\ born' = [born EXCEPT ![id] = ts]
        /\ last' = [op |-> "g_create", id |-> id, sender |-> sender,
                    arg |-> << gt, fmc, intent >>,
                    fx |-> << "check" >>
                           \o Tag(Len(bet.draws), "draw")
                           \o (IF fmc > 0 THEN << "check" >> ELSE << >>)
                           \o metaChecks(g)
                           \o << "meta", "count", "event" >>]
  /\ UNCHANGED << gstate, mvcount, mvrec, swap2, now, ticks, prof, paid,
                  joined, bought >>

\* a create that does not advance the game counter
CreateGameKeepsCount(sender, gt, name, fmc, intent) ==
  /\ gcount < GamesCap
  /\ gt \in GameTypes
  /\ LET id == gcount
         ts == now
         bet == applyOptionalBetOnCreate(
                  initNewGame(gt, sender, ts, id, fmc), sender, intent)
         g == bet.g
     IN /\ bet.ok
        /\ (fmc > 0 => g.GameAsset # Nil)
        /\ name <= nameLimit
        /\ meta' = [meta EXCEPT ![id] = Some(metaRecord(g))]
        /\ gcount' = id
        /\ drawn' = book(drawn, id, bet.draws)
        /\ born' = [born EXCEPT ![id] = ts]
        /\ last' = [op |-> "g_create", id |-> id, sender |-> sender,
                    arg |-> << gt, fmc, intent >>,
                    fx |-> << "check" >>
                           \o Tag(Len(bet.draws), "draw")
                           \o (IF fmc > 0 THEN << "check" >> ELSE << >>)
                           \o metaChecks(g)
                           \o << "meta", "count", "event" >>]
  /\ UNCHANGED << gstate, mvcount, mvrec, swap2, now, ticks, prof, paid,
                  joined, bought >>

CreateGame(sender, gt, name, fmc, intent) ==
  /\ gcount < GamesCap
  /\ gt \in GameTypes
  /\ LET id == gcount
         ts == now
         bet == applyOptionalBetOnCreate(
                  initNewGame(gt, sender, ts, id, fmc), sender, intent)
         g == bet.g
     IN /\ bet.ok
        /\ (fmc > 0 => g.GameAsset # Nil)
        /\ name <= nameLimit
        /\ meta' = [meta EXCEPT ![id] = Some(metaRecord(g))]
        /\ gcount' = id + 1
        /\ drawn' = book(drawn, id, bet.draws)
        /\ born' = [born EXCEPT ![id] = ts]
        /\ last' = [op |-> "g_create", id |-> id, sender |-> sender,
                    arg |-> << gt, fmc, intent >>,
                    fx |-> << "check" >>
                           \o Tag(Len(bet.draws), "draw")
                           \o (IF fmc > 0 THEN << "check" >> ELSE << >>)
                           \o metaChecks(g)
                           \o << "meta", "count", "event" >>]
  /\ UNCHANGED << gstate, mvcount, mvrec, swap2, now, ticks, prof, paid,
                  joined, bought >>

\* ------------------------------------------------------------------ g_join

\* wantsFirstMoveAndAssertFunding; ok is FALSE where the code aborts
wantsFirstMoveAndAssertFunding(g, intent) ==
  IF g.GameAsset = Nil \/ g.GameBetAmount = None \/ g.GameBetAmount = Some(0)
  THEN [ok |-> TRUE, wants |-> FALSE, baseBet |-> 0, fmCost |-> 0, token |-> Nil]
  ELSE LET baseBet == g.GameBetAmount[1]
           fmCost == IF g.FirstMoveCosts # None THEN g.FirstMoveCosts[1] ELSE 0
           intentAmt == intentAmount(intent.limit)
       IN [ok |-> /\ intent # NoIntent
                  /\ intent.token \in Assets
                  /\ intent.token = g.GameAsset
                  /\ intentAmt >= baseBet,
           wants |-> fmCost > 0 /\ intentAmt >= baseBet + fmCost,
           baseBet |-> baseBet, fmCost |-> fmCost, token |-> intent.token]

\* a settlement that forgets to draw the first-move fee
settleJoinerFundsAndRolesNoFee(g, joiner, wantsFirstMove, baseBet, fmCost, token) ==
  IF g.GameAsset = Nil \/ g.GameBetAmount = None \/ g.GameBetAmount = Some(0)
  THEN [g |-> [g EXCEPT !.PlayerX = g.Creator, !.PlayerO = joiner],
        draws |-> << >>, transfers |-> << >>]
  ELSE IF wantsFirstMove
  THEN [g |-> [g EXCEPT !.PlayerX = joiner, !.PlayerO = g.Creator],
        draws |-> << [who |-> joiner, amt |-> baseBet, asset |-> token] >>,
        transfers |-> << [who |-> g.Creator, amt |-> fmCost, asset |-> token] >>]
  ELSE [g |-> [g EXCEPT !.PlayerX = g.Creator, !.PlayerO = joiner],
        draws |-> << [who |-> joiner, amt |-> baseBet, asset |-> token] >>,
        transfers |-> << >>]

\* a settlement that gives the joiner player_o also after a purchase
settleJoinerFundsAndRolesJoinerO(g, joiner, wantsFirstMove, baseBet, fmCost, token) ==
  IF g.GameAsset = Nil \/ g.GameBetAmount = None \/ g.GameBetAmount = Some(0)
  THEN [g |-> [g EXCEPT !.PlayerX = g.Creator, !.PlayerO = joiner],
        draws |-> << >>, transfers |-> << >>]
  ELSE IF wantsFirstMove
  THEN [g |-> [g EXCEPT !.PlayerX = joiner, !.PlayerO = joiner],
        draws |-> << [who |-> joiner, amt |-> baseBet + fmCost, asset |-> token] >>,
        transfers |-> << [who |-> g.Creator, amt |-> fmCost, asset |-> token] >>]
  ELSE [g |-> [g EXCEPT !.PlayerX = g.Creator, !.PlayerO = joiner],
        draws |-> << [who |-> joiner, amt |-> baseBet, asset |-> token] >>,
        transfers |-> << >>]

\* settleJoinerFundsAndRoles
settleJoinerFundsAndRoles(g, joiner, wantsFirstMove, baseBet, fmCost, token) ==
  IF g.GameAsset = Nil \/ g.GameBetAmount = None \/ g.GameBetAmount = Some(0)
  THEN [g |-> [g EXCEPT !.PlayerX = g.Creator, !.PlayerO = joiner],
        draws |-> << >>, transfers |-> << >>]
  ELSE IF wantsFirstMove
  THEN [g |-> [g EXCEPT !.PlayerX = joiner, !.PlayerO = g.Creator],
        draws |-> << [who |-> joiner, amt |-> baseBet + fmCost, asset |-> token] >>,
        transfers |-> << [who |-> g.Creator, amt |-> fmCost, asset |-> token] >>]
  ELSE [g |-> [g EXCEPT !.PlayerX = g.Creator, !.PlayerO = joiner],
        draws |-> << [who |-> joiner, amt |-> baseBet, asset |-> token] >>,
        transfers |-> << >>]

\* initSwap2IfGomokuBinary
initSwap2IfGomokuBinary(g) ==
  IF g.Type # Gomoku THEN swap2
  ELSE [swap2 EXCEPT ![g.ID] =
          Some([Phase |-> swap2PhaseOpening, NextActor |-> 1, InitX |-> 0,
                InitO |-> 0, ExtraX |-> 0, ExtraO |-> 0])]

\* a join that is also let through on a game in progress
JoinGameAnyStatus(joiner, gameId, intent) ==
  /\ canLoad(gameId)
  /\ LET g0 == loadGame(gameId)
         g1 == [g0 EXCEPT !.Opponent = joiner]
         w == wantsFirstMoveAndAssertFunding(g1, intent)
         st == settleJoinerFundsAndRoles(g1, joiner, w.wants, w.baseBet,
                                         w.fmCost, w.token)
         g == [st.g EXCEPT !.Status = InProgress]
     IN /\ g0.Status \in {WaitingForPlayer, InProgress}
        /\ joiner # g0.Creator
        /\ w.ok
        /\ meta' = [meta EXCEPT ![gameId] = Some(metaRecord(g))]
        /\ gstate' = [gstate EXCEPT ![gameId] = Some(stateRecord(g))]
        /\ swap2' = initSwap2IfGomokuBinary(g)
        /\ drawn' = book(drawn, gameId, st.draws)
        /\ paid' = book(paid, gameId, st.transfers)
        /\ bought' = [bought EXCEPT ![gameId] =
                         IF w.wants THEN "fmp" ELSE "pari"]
        /\ joined' = [joined EXCEPT ![gameId] = now]
        /\ last' = [op |-> "g_join", id |-> gameId, sender |-> joiner,
                    arg |-> << intent, w.wants >>,
                    fx |-> << "check" >>
                           \o Tag(Len(st.draws), "draw")
                           \o Tag(Len(st.transfers), "transfer")
                           \o metaChecks(g) \o << "meta" >>
                           \o stateChecks(g) \o << "state" >>
                           \o (IF g.Type = Gomoku THEN << "swap2" >> ELSE << >>)
                           \o << "event" >>]
  /\ UNCHANGED << gcount, mvcount, mvrec, now, ticks, prof, born >>

JoinGame(joiner, gameId, intent) ==
  /\ canLoad(gameId)
  /\ LET g0 == loadGame(gameId)
         g1 == [g0 EXCEPT !.Opponent = joiner]
         w == wantsFirstMoveAndAssertFunding(g1, intent)
         st == settleJoinerFundsAndRoles(g1, joiner, w.wants, w.baseBet,
                                         w.fmCost, w.token)
         g == [st.g EXCEPT !.Status = InProgress]
     IN /\ g0.Status = WaitingForPlayer
        /\ joiner # g0.Creator
        /\ w.ok
        /\ meta' = [meta EXCEPT ![gameId] = Some(metaRecord(g))]
        /\ gstate' = [gstate EXCEPT ![gameId] = Some(stateRecord(g))]
        /\ swap2' = initSwap2IfGomokuBinary(g)
        /\ drawn' = book(drawn, gameId, st.draws)
        /\ paid' = book(paid, gameId, st.transfers)
        /\ bought' = [bought EXCEPT ![gameId] =
                         IF w.wants THEN "fmp" ELSE "pari"]
        /\ joined' = [joined EXCEPT ![gameId] = now]
        /\ last' = [op |-> "g_join", id |-> gameId, sender |-> joiner,
                    arg |-> << intent, w.wants >>,
                    fx |-> << "check" >>
                           \o Tag(Len(st.draws), "draw")
                           \o Tag(Len(st.transfers), "transfer")
                           \o metaChecks(g) \o << "meta" >>
                           \o stateChecks(g) \o << "state" >>
                           \o (IF g.Type = Gomoku THEN << "swap2" >> ELSE << >>)
                           \o << "event" >>]
  /\ UNCHANGED << gcount, mvcount, mvrec, now, ticks, prof, born >>

\* ------------------------------------------------------------------ g_move

\* a write that lands on the key of the previous move
putMoveOverLast(recs, n, rec) ==
  LET key == IF n > 1 THEN n - 1 ELSE n
  IN [k \in (DOMAIN recs) \cup {key} |-> IF k = key THEN rec ELSE recs[k]]

\* StateSetObject on the key of move n
putMove(recs, n, rec) ==
  [k \in (DOMAIN recs) \cup {n} |-> IF k = n THEN rec ELSE recs[k]]

\* appendMoveBinary: row, col and the delta to CreatedAt (a uint32; every
\* modelled timestamp difference is below 2^31, so the cast changes nothing)
moveRecord(row, col, ts, createdAt) ==
  [row |-> row, col |-> col, delta |-> ts - createdAt]

\* an end-of-move test that looks at the full board before the lines
finalizeDrawFirst(g, grid, row, col, mark, mvCount) ==
  LET wl == winLengthFor(g.Type)
      dims == boardDimensions(g.Type)
      won == [g EXCEPT !.Winner = IF mark = X THEN g.PlayerX ELSE g.PlayerO,
                       !.Status = Finished]
      lost == [g EXCEPT !.Winner = IF mark = O THEN g.PlayerX ELSE g.PlayerO,
                        !.Status = Finished]
      drew == [g EXCEPT !.Status = Finished]
      pay(h) == IF h.GameBetAmount # None THEN transferPot(h, h.Winner) ELSE << >>
      split == IF g.GameBetAmount # None THEN splitPot(drew) ELSE << >>
  IN IF mvCount >= dims[1] * dims[2]
     THEN [finished |-> TRUE, g |-> drew, transfers |-> split, how |-> "draw"]
     ELSE IF checkPatternGrid(grid, row, col, wl.len, wl.exact)
     THEN [finished |-> TRUE, g |-> won, transfers |-> pay(won), how |-> "win"]
     ELSE IF g.Type = Squava /\ checkPatternGrid(grid, row, col, 3, wl.exact)
     THEN [finished |-> TRUE, g |-> lost, transfers |-> pay(lost), how |-> "three"]
     ELSE [finished |-> FALSE, g |-> g, transfers |-> << >>, how |-> "open"]

\* an end-of-move test that looks for the Squava three before the win
finalizeThreeFirst(g, grid, row, col, mark, mvCount) ==
  LET wl == winLengthFor(g.Type)
      dims == boardDimensions(g.Type)
      won == [g EXCEPT !.Winner = IF mark = X THEN g.PlayerX ELSE g.PlayerO,
                       !.Status = Finished]
      lost == [g EXCEPT !.Winner = IF mark = O THEN g.PlayerX ELSE g.PlayerO,
                        !.Status = Finished]
      drew == [g EXCEPT !.Status = Finished]
      pay(h) == IF h.GameBetAmount # None THEN transferPot(h, h.Winner) ELSE << >>
      split == IF g.GameBetAmount # None THEN splitPot(drew) ELSE << >>
  IN IF g.Type = Squava /\ checkPatternGrid(grid, row, col, 3, wl.exact)
     THEN [finished |-> TRUE, g |-> lost, transfers |-> pay(lost), how |-> "three"]
     ELSE IF checkPatternGrid(grid, row, col, wl.len, wl.exact)
     THEN [finished |-> TRUE, g |-> won, transfers |-> pay(won), how |-> "win"]
     ELSE IF mvCount >= dims[1] * dims[2]
     THEN [finished |-> TRUE, g |-> drew, transfers |-> split, how |-> "draw"]
     ELSE [finished |-> FALSE, g |-> g, transfers |-> << >>, how |-> "open"]

\* finalizeIfWinOrDraw: win, then the Squava three, then the full board
finalizeIfWinOrDraw(g, grid, row, col, mark, mvCount) ==
  LET wl == winLengthFor(g.Type)
      dims == boardDimensions(g.Type)
      won == [g EXCEPT !.Winner = IF mark = X THEN g.PlayerX ELSE g.PlayerO,
                       !.Status = Finished]
      lost == [g EXCEPT !.Winner = IF mark = O THEN g.PlayerX ELSE g.PlayerO,
                        !.Status = Finished]
      drew == [g EXCEPT !.Status = Finished]
      pay(h) == IF h.GameBetAmount # None THEN transferPot(h, h.Winner) ELSE << >>
      split == IF g.GameBetAmount # None THEN splitPot(drew) ELSE << >>
  IN IF checkPatternGrid(grid, row, col, wl.len, wl.exact)
     THEN [finished |-> TRUE, g |-> won, transfers |-> pay(won), how |-> "win"]
     ELSE IF g.Type = Squava /\ checkPatternGrid(grid, row, col, 3, wl.exact)
     THEN [finished |-> TRUE, g |-> lost, transfers |-> pay(lost), how |-> "three"]
     ELSE IF mvCount >= dims[1] * dims[2]
     THEN [finished |-> TRUE, g |-> drew, transfers |-> split, how |-> "draw"]
     ELSE [finished |-> FALSE, g |-> g, transfers |-> << >>, how |-> "open"]

\* a gate that never sees an opening
swap2ActiveNever(g) == FALSE

\* the opening gate of MakeMove, ClaimTimeout and SwapMove
swap2Active(g) ==
  /\ g.Type = Gomoku
  /\ swap2[g.ID] # None
  /\ swap2[g.ID][1].Phase # swap2PhaseNone

MakeMove(sender, gameID, row, col) ==
  /\ canLoad(gameID)
  /\ LET g == loadGame(gameID)
         dims == boardDimensions(g.Type)
     IN /\ g.Status = InProgress
        /\ isPlayer(g, sender)
        /\ ~swap2Active(g)
        /\ row >= 0 /\ row < dims[1] /\ col >= 0 /\ col < dims[2]
        /\ canReconstruct(gameID)
        /\ LET grid == reconstructBoard(g)
               mvCount == readMoveCount(gameID)
               currentTurn == computeCurrentTurn(mvCount)
               mark == requireSenderMark(g, sender)
               cell == appliedCell(g, grid, row, col)
           IN /\ mark # Empty
              /\ mark = currentTurn
              /\ cell # None
              /\ now >= g.CreatedAt
              /\ LET newMv == mvCount + 1
                     fin == finalizeIfWinOrDraw(
                              g, [grid EXCEPT ![cell] = mark], cell[1], cell[2],
                              mark, newMv)
                 IN /\ mvrec' = [mvrec EXCEPT ![gameID] =
                                   putMove(@, newMv,
                                           moveRecord(cell[1], cell[2], now,
                                                      g.CreatedAt))]
                    /\ mvcount' = [mvcount EXCEPT ![gameID] = newMv]
                    /\ gstate' = IF fin.finished
                                 THEN [gstate EXCEPT ![gameID] =
                                         Some(stateRecord(fin.g))]
                                 ELSE gstate
                    /\ paid' = book(paid, gameID, fin.transfers)
                    /\ last' = [op |-> "g_move", id |-> gameID,
                                sender |-> sender,
                                arg |-> << row, col, fin.how >>,
                                fx |-> << "check", "move", "moves", "event" >>
                                       \o Tag(Len(fin.transfers), "transfer")
                                       \o (IF fin.finished
                                           THEN stateChecks(fin.g)
                                                \o << "state", "event" >>
                                           ELSE << >>)]
  /\ UNCHANGED << gcount, meta, swap2, now, ticks, prof, drawn,
                  born, joined, bought >>

\* --------------------------------------------------------------- g_timeout

\* a rule that lets the player who is due win
timeoutWinnerDue(g) ==
  IF swap2Active(g)
  THEN IF swap2[g.ID][1].NextActor = 1 THEN g.PlayerX ELSE g.PlayerO
  ELSE IF nextToPlay(readMoveCount(g.ID)) = X THEN g.PlayerX ELSE g.PlayerO

\* the player ClaimTimeout lets win: the one who is not due
timeoutWinner(g) ==
  IF swap2Active(g)
  THEN IF swap2[g.ID][1].NextActor = 1 THEN g.PlayerO ELSE g.PlayerX
  ELSE IF nextToPlay(readMoveCount(g.ID)) = X THEN g.PlayerO ELSE g.PlayerX

\* a window that already closes at the last second
timeoutReachedAtEdge(g, t) == t >= g.LastMoveAt + gameTimeout

\* the window test of ClaimTimeout
timeoutReached(g, t) == t > g.LastMoveAt + gameTimeout

\* a timeout that names the winner and keeps the pot
finishGameTimeoutCommonNoPay(g, winner) ==
  [g |-> [g EXCEPT !.Winner = winner, !.Status = Finished],
   transfers |-> << >>]

\* finishGameTimeoutCommon
finishGameTimeoutCommon(g, winner) ==
  LET h == [g EXCEPT !.Winner = winner, !.Status = Finished]
  IN [g |-> h,
      transfers |-> IF h.GameBetAmount # None THEN transferPot(h, winner)
                    ELSE << >>]

ClaimTimeout(sender, gameId) ==
  /\ canLoad(gameId)
  /\ LET g == loadGame(gameId)
     IN /\ g.Status = InProgress
        /\ isPlayer(g, sender)
        /\ g.PlayerO # Nil
        /\ timeoutReached(g, now)
        /\ sender = timeoutWinner(g)
        /\ LET fin == finishGameTimeoutCommon(g, timeoutWinner(g))
           IN /\ gstate' = [gstate EXCEPT ![gameId] = Some(stateRecord(fin.g))]
              /\ paid' = book(paid, gameId, fin.transfers)
              /\ swap2' = IF swap2Active(g)
                          THEN [swap2 EXCEPT ![gameId] = None]
                          ELSE swap2
              /\ last' = [op |-> "g_timeout", id |-> gameId, sender |-> sender,
                          arg |-> << swap2Active(g) >>,
                          fx |-> << "check" >> \o stateChecks(fin.g)
                                 \o << "state" >>
                                 \o Tag(Len(fin.transfers), "transfer")
                                 \o << "event", "event" >>
                                 \o (IF swap2Active(g) THEN << "swap2" >>
                                     ELSE << >>)]
  /\ UNCHANGED << gcount, meta, mvcount, mvrec, now, ticks, prof, drawn,
                  born, joined, bought >>

\* ---------------------------------------------------------------- g_resign

\* a resignation that lets the one who resigns win
resignOutcomeSelf(g, sender) ==
  IF g.PlayerO = Nil
  THEN [g |-> [g EXCEPT !.Status = Finished, !.Winner = Nil],
        transfers |-> IF g.GameBetAmount # None THEN transferPot(g, g.Creator)
                      ELSE << >>]
  ELSE LET h == [g EXCEPT !.Status = Finished, !.Winner = sender]
       IN [g |-> h,
           transfers |-> IF h.GameBetAmount # None THEN transferPot(h, sender)
                         ELSE << >>]

\* a cancellation that names the creator as winner
resignOutcomeWithWinner(g, sender) ==
  IF g.PlayerO = Nil
  THEN [g |-> [g EXCEPT !.Status = Finished, !.Winner = g.Creator],
        transfers |-> IF g.GameBetAmount # None THEN transferPot(g, g.Creator)
                      ELSE << >>]
  ELSE LET winner == IF sender = g.PlayerX THEN g.PlayerO ELSE g.PlayerX
           h == [g EXCEPT !.Status = Finished, !.Winner = winner]
       IN [g |-> h,
           transfers |-> IF h.GameBetAmount # None THEN transferPot(h, winner)
                         ELSE << >>]

\* the two branches of Resign: the lobby is cancelled, or the other side wins
resignOutcome(g, sender) ==
  IF g.PlayerO = Nil
  THEN [g |-> [g EXCEPT !.Status = Finished, !.Winner = Nil],
        transfers |-> IF g.GameBetAmount # None THEN transferPot(g, g.Creator)
                      ELSE << >>]
  ELSE LET winner == IF sender = g.PlayerX THEN g.PlayerO ELSE g.PlayerX
           h == [g EXCEPT !.Status = Finished, !.Winner = winner]
       IN [g |-> h,
           transfers |-> IF h.GameBetAmount # None THEN transferPot(h, winner)
                         ELSE << >>]

\* a resignation that needs an opponent
ResignJoinedOnly(sender, gameId) ==
  /\ canLoad(gameId)
  /\ LET g == loadGame(gameId)
         out == resignOutcome(g, sender)
     IN /\ g.Status # Finished
        /\ g.PlayerO # Nil
        /\ isPlayer(g, sender)
        /\ gstate' = [gstate EXCEPT ![gameId] = Some(stateRecord(out.g))]
        /\ paid' = book(paid, gameId, out.transfers)
        /\ swap2' = [swap2 EXCEPT ![gameId] = None]
        /\ last' = [op |-> "g_resign", id |-> gameId, sender |-> sender,
                    arg |-> << g.PlayerO # Nil >>,
                    fx |-> << "check" >>
                           \o Tag(Len(out.transfers), "transfer")
                           \o stateChecks(out.g)
                           \o << "state", "swap2", "event" >>
                           \o (IF out.g.Winner # Nil THEN << "event" >>
                               ELSE << >>)]
  /\ UNCHANGED << gcount, meta, mvcount, mvrec, now, ticks, prof, drawn,
                  born, joined, bought >>

\* a resignation that does not look at the status
ResignAnyStatus(sender, gameId) ==
  /\ canLoad(gameId)
  /\ LET g == loadGame(gameId)
         out == resignOutcome(g, sender)
     IN /\ isPlayer(g, sender)
        /\ gstate' = [gstate EXCEPT ![gameId] = Some(stateRecord(out.g))]
        /\ paid' = book(paid, gameId, out.transfers)
        /\ swap2' = [swap2 EXCEPT ![gameId] = None]
        /\ last' = [op |-> "g_resign", id |-> gameId, sender |-> sender,
                    arg |-> << g.PlayerO # Nil >>,
                    fx |-> << "check" >>
                           \o Tag(Len(out.transfers), "transfer")
                           \o stateChecks(out.g)
                           \o << "state", "swap2", "event" >>
                           \o (IF out.g.Winner # Nil THEN << "event" >>
                               ELSE << >>)]
  /\ UNCHANGED << gcount, meta, mvcount, mvrec, now, ticks, prof, drawn,
                  born, joined, bought >>

\* g_resign
Resign(sender, gameId) ==
  /\ canLoad(gameId)
  /\ LET g == loadGame(gameId)
         out == resignOutcome(g, sender)
     IN /\ g.Status # Finished
        /\ isPlayer(g, sender)
        /\ gstate' = [gstate EXCEPT ![gameId] = Some(stateRecord(out.g))]
        /\ paid' = book(paid, gameId, out.transfers)
        /\ swap2' = [swap2 EXCEPT ![gameId] = None]
        /\ last' = [op |-> "g_resign", id |-> gameId, sender |-> sender,
                    arg |-> << g.PlayerO # Nil >>,
                    fx |-> << "check" >>
                           \o Tag(Len(out.transfers), "transfer")
                           \o stateChecks(out.g)
                           \o << "state", "swap2", "event" >>
                           \o (IF out.g.Winner # Nil THEN << "event" >>
                               ELSE << >>)]
  /\ UNCHANGED << gcount, meta, mvcount, mvrec, now, ticks, prof, drawn,
                  born, joined, bought >>

\* ------------------------------------------------------------------ g_swap

\* a placement that lets one more X stone through than the quota
swapStoneLooseQuota(g, acc, t, extra) ==
  LET st == acc.st
      row == t[1]
      col == t[2]
      cell == t[3]
      dims == boardDimensions(Gomoku)
      inside == row >= 0 /\ row < dims[1] /\ col >= 0 /\ col < dims[2]
      stored == \A i \in 1 .. acc.count : i \in DOMAIN acc.recs
      grid == reconstructFrom(g.Type, acc.recs, acc.count)
      newMv == acc.count + 1
      quota == IF extra
               THEN IF cell = X THEN st.ExtraX < 2 ELSE st.ExtraO < 1
               ELSE IF cell = X THEN st.InitX < 3 ELSE st.InitO < 1
      counted == IF extra
                 THEN IF cell = X THEN [st EXCEPT !.ExtraX = @ + 1]
                      ELSE [st EXCEPT !.ExtraO = @ + 1]
                 ELSE IF cell = X THEN [st EXCEPT !.InitX = @ + 1]
                      ELSE [st EXCEPT !.InitO = @ + 1]
      full == IF extra THEN counted.ExtraX = 1 /\ counted.ExtraO = 1
              ELSE counted.InitX = 2 /\ counted.InitO = 1
      next == IF ~full THEN counted
              ELSE IF extra
              THEN [counted EXCEPT !.Phase = swap2PhaseColorChoice,
                                   !.NextActor = 1]
              ELSE [counted EXCEPT !.Phase = swap2PhaseSwapChoice,
                                   !.NextActor = 2]
  IN IF /\ acc.ok
        /\ st.Phase = (IF extra THEN swap2PhaseExtraPlace ELSE swap2PhaseOpening)
        /\ inside
        /\ cell \in {X, O}
        /\ stored
        /\ grid[<< row, col >>] = Empty
        /\ now >= g.CreatedAt
        /\ quota
     THEN [ok |-> TRUE, st |-> next,
           recs |-> putMove(acc.recs, newMv,
                            moveRecord(row, col, now, g.CreatedAt)),
           count |-> newMv]
     ELSE [acc EXCEPT !.ok = FALSE]

\* a loop step that passes over a stone the checks turn down and goes on
swapStoneSkipsRejected(g, acc, t, extra) ==
  IF swapStoneLooseQuota(g, acc, t, extra).ok
     /\ (IF extra
         THEN IF t[3] = X THEN acc.st.ExtraX < 1 ELSE acc.st.ExtraO < 1
         ELSE IF t[3] = X THEN acc.st.InitX < 2 ELSE acc.st.InitO < 1)
  THEN swapStoneLooseQuota(g, acc, t, extra)
  ELSE acc

\* one stone of "place" or "add": acc threads the opening state st and the
\* move keys through the tuples of one call; ok turns FALSE where the code
\* aborts.  t = << row, col, color >>.
swapStone(g, acc, t, extra) ==
  LET st == acc.st
      row == t[1]
      col == t[2]
      cell == t[3]
      dims == boardDimensions(Gomoku)
      inside == row >= 0 /\ row < dims[1] /\ col >= 0 /\ col < dims[2]
      stored == \A i \in 1 .. acc.count : i \in DOMAIN acc.recs
      grid == reconstructFrom(g.Type, acc.recs, acc.count)
      newMv == acc.count + 1
      quota == IF extra
               THEN IF cell = X THEN st.ExtraX < 1 ELSE st.ExtraO < 1
               ELSE IF cell = X THEN st.InitX < 2 ELSE st.InitO < 1
      counted == IF extra
                 THEN IF cell = X THEN [st EXCEPT !.ExtraX = @ + 1]
                      ELSE [st EXCEPT !.ExtraO = @ + 1]
                 ELSE IF cell = X THEN [st EXCEPT !.InitX = @ + 1]
                      ELSE [st EXCEPT !.InitO = @ + 1]
      full == IF extra THEN counted.ExtraX = 1 /\ counted.ExtraO = 1
              ELSE counted.InitX = 2 /\ counted.InitO = 1
      next == IF ~full THEN counted
              ELSE IF extra
              THEN [counted EXCEPT !.Phase = swap2PhaseColorChoice,
                                   !.NextActor = 1]
              ELSE [counted EXCEPT !.Phase = swap2PhaseSwapChoice,
                                   !.NextActor = 2]
  IN IF /\ acc.ok
        /\ st.Phase = (IF extra THEN swap2PhaseExtraPlace ELSE swap2PhaseOpening)
        /\ inside
        /\ cell \in {X, O}
        /\ stored
        /\ grid[<< row, col >>] = Empty
        /\ now >= g.CreatedAt
        /\ quota
     THEN [ok |-> TRUE, st |-> next,
           recs |-> putMove(acc.recs, newMv,
                            moveRecord(row, col, now, g.CreatedAt)),
           count |-> newMv]
     ELSE [acc EXCEPT !.ok = FALSE]

\* swapPlaceOpening
swapPlaceOpening(g, acc, t) == swapStone(g, acc, t, FALSE)

\* swapAddExtra
swapAddExtra(g, acc, t) == swapStone(g, acc, t, TRUE)

RECURSIVE swapStones(_, _, _, _)
\* the loop of SwapMove over the tuples of a "place" or an "add"
swapStones(g, acc, tuples, extra) ==
  IF tuples = << >> THEN acc
  ELSE swapStones(g,
                  IF extra THEN swapAddExtra(g, acc, Head(tuples))
                  ELSE swapPlaceOpening(g, acc, Head(tuples)),
                  Tail(tuples), extra)

\* an exchange that leaves the roles where they are
swapRolesKept(g) == g

\* tmp := PlayerX; PlayerX = *PlayerO; *PlayerO = tmp
swapRoles(g) == [g EXCEPT !.PlayerX = g.PlayerO, !.PlayerO = g.PlayerX]

\* swapChooseSide: roles after the choice, and whether the opening goes on
swapChooseSide(g, st, choice) ==
  [ok |-> st.Phase = swap2PhaseSwapChoice /\ choice \in {"swap", "stay", "add"},
   g |-> IF choice = "swap" THEN swapRoles(g) ELSE g,
   st |-> IF choice = "add"
          THEN Some([st EXCEPT !.Phase = swap2PhaseExtraPlace, !.ExtraX = 0,
                               !.ExtraO = 0, !.NextActor = 2])
          ELSE None]

\* a colour choice that leaves the opening record in place
swapFinalColorKeepsRecord(g, st, ch) ==
  [ok |-> st.Phase = swap2PhaseColorChoice /\ ch \in {1, 2},
   g |-> IF ch = 2 THEN swapRoles(g) ELSE g,
   st |-> Some(st)]

\* swapFinalColor
swapFinalColor(g, st, ch) ==
  [ok |-> st.Phase = swap2PhaseColorChoice /\ ch \in {1, 2},
   g |-> IF ch = 2 THEN swapRoles(g) ELSE g,
   st |-> None]

\* an actor taken from who created and who joined, not from the roles
ActorByArrival(st, g) == IF st.NextActor = 1 THEN g.Creator ELSE g.Opponent

\* swap2StateBinary.Actor
Actor(st, g) == IF st.NextActor = 1 THEN g.PlayerX ELSE g.PlayerO

\* the checks SwapMove makes before it looks at the operation
swapAllowed(sender, gameID) ==
  /\ canLoad(gameID)
  /\ LET g == loadGame(gameID)
     IN /\ g.Type = Gomoku
        /\ g.Opponent # Nil /\ g.PlayerO # Nil
        /\ g.Status = InProgress
        /\ swap2[gameID] # None
        /\ swap2[gameID][1].Phase # swap2PhaseNone
        /\ sender = Actor(swap2[gameID][1], g)

\* g_swap id|place|... and id|add|...
SwapStones(sender, gameID, op, tuples) ==
  /\ swapAllowed(sender, gameID)
  /\ op \in {"place", "add"}
  /\ Len(tuples) > 0
  /\ Len(tuples) <= (IF op = "place" THEN 3 ELSE 2)
  /\ LET g == loadGame(gameID)
         acc == swapStones(g, [ok |-> TRUE, st |-> swap2[gameID][1],
                               recs |-> mvrec[gameID],
                               count |-> readMoveCount(gameID)],
                           tuples, op = "add")
     IN /\ acc.ok
        /\ mvrec' = [mvrec EXCEPT ![gameID] = acc.recs]
        /\ mvcount' = [mvcount EXCEPT ![gameID] = acc.count]
        /\ swap2' = [swap2 EXCEPT ![gameID] = Some(acc.st)]
        /\ last' = [op |-> "g_swap", id |-> gameID, sender |-> sender,
                    arg |-> << op, tuples >>,
                    fx |-> << "check" >> \o stoneEffects(Len(tuples))]
  /\ UNCHANGED << gcount, meta, gstate, now, ticks, prof, drawn, paid, born, joined, bought >>

\* g_swap id|choose|... and id|color|...
SwapDecide(sender, gameID, op, a1) ==
  /\ swapAllowed(sender, gameID)
  /\ op \in {"choose", "color"}
  /\ LET g == loadGame(gameID)
         d == IF op = "choose" THEN swapChooseSide(g, swap2[gameID][1], a1)
              ELSE swapFinalColor(g, swap2[gameID][1], a1)
     IN /\ d.ok
        /\ swap2' = [swap2 EXCEPT ![gameID] = d.st]
        /\ gstate' = IF d.st = None
                     THEN [gstate EXCEPT ![gameID] = Some(stateRecord(d.g))]
                     ELSE gstate
        /\ last' = [op |-> "g_swap", id |-> gameID, sender |-> sender,
                    arg |-> << op, a1 >>,
                    fx |-> << "check", "event" >>
                           \o (IF op = "choose" THEN << "check" >> ELSE << >>)
                           \o (IF d.st = None
                               THEN << "swap2" >> \o stateChecks(d.g)
                                    \o << "state", "event", "event" >>
                               ELSE << "swap2", "event" >>)]
  /\ UNCHANGED << gcount, meta, mvcount, mvrec, now, ticks, prof, drawn, paid, born, joined, bought >>

\* ------------------------------------------------------------------- clock

\* the host moves on to a later block
Tick(d) ==
  /\ ticks < TicksCap
  /\ now' = now + d
  /\ ticks' = ticks + 1
  /\ last' = [op |-> "tick", id |-> 0, sender |-> Nil, arg |-> << d >>,
              fx |-> << >>]
  /\ UNCHANGED << gcount, meta, gstate, mvcount, mvrec, swap2, prof, drawn,
                  paid, born, joined, bought >>

\* ----------------------------------------------------------- specification

Init ==
  /\ gcount = 0
  /\ meta = [id \in GameIds |-> None]
  /\ gstate = [id \in GameIds |-> None]
  /\ mvcount = [id \in GameIds |-> 0]
  /\ mvrec = [id \in GameIds |-> << >>]
  /\ swap2 = [id \in GameIds |-> None]
  /\ now = StartTime
  /\ ticks = 0
  /\ prof \in Profiles
  /\ drawn = NoFunds
  /\ paid = NoFunds
  /\ born = [id \in GameIds |-> 0]
  /\ joined = [id \in GameIds |-> 0]
  /\ bought = [id \in GameIds |-> "open"]
  /\ last = [op |-> "init", id |-> 0, sender |-> Nil, arg |-> << >>,
             fx |-> << >>]

\* the board of a stored game, for the input bounds below
boardOf(id) == reconstructBoard(loadGame(id))

\* the cells a g_move on game id may name.  In Connect Four the row named
\* is one that moves on with the game, so that it mostly differs from the
\* row the disc lands in, or the first row beyond the board.
MoveInputs(id) ==
  IF canLoad(id) /\ canReconstruct(id) /\ readMoveCount(id) < StonesCap
  THEN LET gt == meta[id][1].type
           rows == boardDimensions(gt)[1]
           cells == Candidates(gt, boardOf(id)) \cup firstTaken(gt, boardOf(id))
       IN IF gt = ConnectFour
          THEN { << readMoveCount(id) % rows, c[2] >> : c \in cells }
               \cup { << rows, c[2] >> : c \in cells }
          ELSE cells
  ELSE {}

RECURSIVE firstSeq(_, _, _, _, _)
\* the first k playable cells of the pool, in pool order
firstSeq(gt, grid, pool, i, k) ==
  IF k = 0 \/ i > Len(pool) THEN << >>
  ELSE IF playable(gt, grid, pool[i])
       THEN << pool[i] >> \o firstSeq(gt, grid, pool, i + 1, k - 1)
       ELSE firstSeq(gt, grid, pool, i + 1, k)

\* the tuple lists a g_swap place/add on game id may carry: up to three
\* stones on the next free pool cells, each of either colour; one stone on
\* an occupied cell; two stones on the same free cell
StoneInputs(id) ==
  IF canLoad(id) /\ canReconstruct(id) /\ swap2[id] # None
  THEN LET free == firstSeq(Gomoku, boardOf(id), CellPool(Gomoku), 1, 3)
           room(m) == readMoveCount(id) + m <= StonesCap
       IN UNION { { [i \in 1 .. n |-> << free[i][1], free[i][2], k[i] >>]
                    : k \in [1 .. n -> {X, O}] }
                  : n \in { m \in 1 .. Len(free) : room(m) } }
          \cup { << << c[1], c[2], k >> >>
                 : c \in IF room(1) THEN firstTaken(Gomoku, boardOf(id))
                         ELSE {},
                   k \in {X, O} }
          \cup (IF Len(free) >= 1 /\ room(2)
                THEN { << << free[1][1], free[1][2], X >>,
                          << free[1][1], free[1][2], O >> >> }
                ELSE {})
  ELSE {}

\* who may create, which games, and with which stakes, per run profile
Creators == IF prof = "multi" THEN {"alice", "bob"} ELSE {"alice"}

TypesOffered ==
  CASE prof = "board" -> GameTypes
    [] prof = "clock" -> {TicTacToe, Gomoku}
    [] prof = "multi" -> {TicTacToe}

FmcOffered == IF prof = "board" THEN FmcChoices ELSE {0}

JoinIntentsOffered ==
  IF prof = "board" THEN JoinIntents
  ELSE {NoIntent, [token |-> "hive", limit |-> 1000]}

Next ==
  \/ \E s \in Creators, gt \in TypesOffered, fmc \in FmcOffered,
        i \in CreateIntents, name \in NamesOffered :
       CreateGame(s, gt, name, fmc, i)
  \/ \E s \in Addr, id \in GameIds, i \in JoinIntentsOffered :
       JoinGame(s, id, i)
  \/ \E s \in Addr, id \in GameIds :
       \E cell \in MoveInputs(id) : MakeMove(s, id, cell[1], cell[2])
  \/ \E s \in Addr, id \in GameIds : ClaimTimeout(s, id)
  \/ \E s \in Addr, id \in GameIds : Resign(s, id)
  \/ \E s \in Addr, id \in GameIds, op \in {"place", "add"} :
       \E tuples \in StoneInputs(id) : SwapStones(s, id, op, tuples)
  \/ \E s \in Addr, id \in GameIds :
       \/ \E choice \in {"swap", "stay", "add", "pass"} :
            SwapDecide(s, id, "choose", choice)
       \/ \E ch \in {0, 1, 2} : SwapDecide(s, id, "color", ch)
  \/ \E d \in TickSteps : Tick(d)

Spec == Init /\ [][Next]_vars

\* ---------------------------------------------------- "line" runs (Gomoku)
\* A run that starts in the middle of a Gomoku game, so that rows of five
\* and more come within reach: alice (player_x) and bob (player_o) have
\* finished the opening with "stay" and have placed k stones each in turn,
\* alice on the cells of row 7 named by xs, bob on every second cell of row
\* 0.  No run of xs is longer than four and bob has no two stones side by
\* side, so no stone on the way there ended the game.

\* the columns of row 7 the stones of a "line" run go to
LineCols == 3 .. 11

\* the sets of columns alice may hold when the run starts
LineStarts ==
  { xs \in SUBSET LineCols :
      /\ Cardinality(xs) \in 3 .. MaxLineStones
      /\ \A c \in LineCols : ~({c, c + 1, c + 2, c + 3, c + 4} \subseteq xs) }

\* the i-th smallest column of xs
colAt(xs, i) == CHOOSE c \in xs : Cardinality({ x \in xs : x < c }) = i - 1

\* the move records after k stones each: odd records alice, even ones bob
lineRecords(xs) ==
  [n \in 1 .. (2 * Cardinality(xs)) |->
     IF n % 2 = 1
     THEN moveRecord(7, colAt(xs, (n + 1) \div 2), StartTime, 0)
     ELSE moveRecord(0, n - 2, StartTime, 0)]

\* the game as JoinGame saved it
lineGame ==
  [initNewGame(Gomoku, "alice", StartTime, 0, 0)
     EXCEPT !.Opponent = "bob", !.PlayerO = "bob", !.Status = InProgress]

InitLine ==
  \E xs \in LineStarts :
    /\ gcount = 1
    /\ meta = [id \in GameIds |->
                 IF id = 0 THEN Some(metaRecord(lineGame)) ELSE None]
    /\ gstate = [id \in GameIds |->
                   IF id = 0 THEN Some(stateRecord(lineGame)) ELSE None]
    /\ mvcount = [id \in GameIds |->
                    IF id = 0 THEN 2 * Cardinality(xs) ELSE 0]
    /\ mvrec = [id \in GameIds |->
                  IF id = 0 THEN lineRecords(xs) ELSE << >>]
    /\ swap2 = [id \in GameIds |-> None]
    /\ now = StartTime
    /\ ticks = 0
    /\ prof = "line"
    /\ drawn = NoFunds
    /\ paid = NoFunds
    /\ born = [id \in GameIds |-> IF id = 0 THEN StartTime ELSE 0]
    /\ joined = [id \in GameIds |-> IF id = 0 THEN StartTime ELSE 0]
    /\ bought = [id \in GameIds |-> IF id = 0 THEN "pari" ELSE "open"]
    /\ last = [op |-> "g_move", id |-> 0, sender |-> "bob",
               arg |-> << 0, 2 * Cardinality(xs) - 2, "open" >>,
               fx |-> << "check", "move", "moves", "event" >>]

\* the stones bob holds on row 0 tell how many stones each had at the start
lineStonesAtStart ==
  Cardinality({ n \in DOMAIN mvrec[0] : mvrec[0][n].row = 0 })

NextLine ==
  \E s \in Addr, c \in LineCols :
    /\ mvcount[0] < 2 * lineStonesAtStart + MaxLineMoves
    /\ MakeMove(s, 0, 7, c)

SpecLine == InitLine /\ [][NextLine]_vars

\* -------------------------------------------------------------- properties

\* what the store says about game id
statusOf(id) ==
  IF gstate[id] = None THEN WaitingForPlayer ELSE gstate[id][1].status
winnerOf(id) == IF gstate[id] = None THEN Nil ELSE gstate[id][1].winner
holderX(id) == IF gstate[id] = None THEN meta[id][1].creator
               ELSE gstate[id][1].playerX
holderO(id) == IF gstate[id] = None THEN Nil ELSE gstate[id][1].playerO
creatorOf(id) == meta[id][1].creator
opponentOf(id) == meta[id][1].opponent
assetOf(id) == meta[id][1].asset
betOf(id) == IF meta[id][1].bet = None THEN 0 ELSE meta[id][1].bet[1]
fmcOf(id) == IF meta[id][1].fmc = None THEN 0 ELSE meta[id][1].fmc[1]
wagered(id) == meta[id] # None /\ assetOf(id) # Nil /\ betOf(id) > 0
openingActive(id) ==
  /\ meta[id][1].type = Gomoku
  /\ swap2[id] # None
  /\ swap2[id][1].Phase # swap2PhaseNone

\* the totals of a ledger that holds amount a1 for k1 and a2 for k2 (k1 # k2)
Totals(k1, a1, k2, a2) ==
  [k \in Addr \X Assets |-> IF k = k1 THEN a1 ELSE IF k = k2 THEN a2 ELSE 0]

\* a game cancelled by its creator before anybody joined
cancelled(id) ==
  meta[id] # None /\ statusOf(id) = Finished /\ opponentOf(id) = Nil

\* C1: the status of a game never decreases along Waiting, InProgress,
\* Finished; a new game starts Waiting; a step from Waiting straight to
\* Finished is a g_resign of the creator on a game without opponent, leaves
\* the winner unset and pays the bet, if any, back to the creator.
C1_StatusOneWay ==
  [][\A id \in GameIds :
       /\ (meta[id] = None /\ meta'[id] # None =>
             statusOf(id)' = WaitingForPlayer)
       /\ (meta[id] # None =>
             /\ meta'[id] # None
             /\ statusOf(id)' >= statusOf(id)
             /\ (statusOf(id) = WaitingForPlayer /\ statusOf(id)' = Finished =>
                   /\ last'.op = "g_resign"
                   /\ last'.id = id
                   /\ last'.sender = creatorOf(id)
                   /\ opponentOf(id) = Nil
                   /\ opponentOf(id)' = Nil
                   /\ winnerOf(id)' = Nil
                   /\ paid'[id] =
                        [k \in Addr \X Assets |->
                           paid[id][k]
                           + (IF wagered(id) /\ k = << creatorOf(id), assetOf(id) >>
                              THEN betOf(id) ELSE 0)]))]_vars

\* one wagered game cancelled before a join and refunded, another one
\* finished after a join
C1_Witness ==
  \E a, b \in GameIds :
    /\ cancelled(a) /\ wagered(a) /\ winnerOf(a) = Nil
    /\ paid[a] = Totals(<< creatorOf(a), assetOf(a) >>, betOf(a),
                        << Nil, Nil >>, 0)
    /\ meta[b] # None /\ statusOf(b) = Finished /\ opponentOf(b) # Nil

dueOf(id) ==
  IF openingActive(id)
  THEN IF swap2[id][1].NextActor = 1 THEN holderX(id) ELSE holderO(id)
  ELSE IF mvcount[id] % 2 = 0 THEN holderX(id) ELSE holderO(id)

\* C3: a g_timeout that went through was sent by the participant who is not
\* due, and makes that sender the winner; the one who is due never wins.
C3_TimeoutWinnerWaits ==
  [][\A id \in GameIds :
       last'.op = "g_timeout" /\ last'.id = id =>
         /\ last'.sender \in {holderX(id), holderO(id)}
         /\ last'.sender # dueOf(id)
         /\ winnerOf(id)' = last'.sender
         /\ winnerOf(id)' # dueOf(id)
         /\ statusOf(id)' = Finished]_vars

\* a timeout claimed during the opening, after the three opening stones
C3_Witness ==
  /\ last.op = "g_timeout"
  /\ last.arg = << TRUE >>
  /\ mvcount[last.id] = 3
  /\ winnerOf(last.id) = holderX(last.id)

\* created_at + the delta of the latest recorded move (created_at without one)
lastMoveTs(id) ==
  meta[id][1].createdAt
  + (IF mvcount[id] > 0 THEN mvrec[id][mvcount[id]].delta ELSE 0)

\* C4: a g_timeout goes through only on an InProgress game, from the holder
\* of player_x or player_o, with an opponent on record, and at a block
\* timestamp strictly above last_move_ts + 604800.
C4_TimeoutGuards ==
  [][last'.op = "g_timeout" =>
       /\ meta[last'.id] # None
       /\ gstate[last'.id] # None
       /\ statusOf(last'.id) = InProgress
       /\ last'.sender \in {holderX(last'.id), holderO(last'.id)}
       /\ opponentOf(last'.id) # Nil
       /\ holderO(last'.id) # Nil
       /\ now > lastMoveTs(last'.id) + gameTimeout
       /\ now' = now]_vars

\* a timeout claimed one second after the window of a recorded move closed
C4_Witness ==
  /\ last.op = "g_timeout"
  /\ mvcount[last.id] > 0
  /\ now = lastMoveTs(last.id) + gameTimeout + 1

\* C5: the stored created_at is the block timestamp of the g_create call,
\* and a g_timeout on a game without moves goes through only after that
\* timestamp + 604800.
C5_CreatedAtIsCreateTime ==
  \A id \in GameIds :
    meta[id] # None =>
      /\ meta[id][1].createdAt = born[id]
      /\ (last.op = "g_timeout" /\ last.id = id /\ mvcount[id] = 0 =>
            now > born[id] + gameTimeout)

\* C6: in a wagered game joined without first-move purchase, the creator's
\* bet is the only draw before the join, the two bets are the only draws
\* after it, nothing is paid while the game runs, and once it is finished
\* with a winner the only payment is 2*bet to the winner.
C6_PariWinLedger ==
  \A id \in GameIds :
    wagered(id) /\ bought[id] # "fmp" =>
      LET c == << creatorOf(id), assetOf(id) >>
          o == << opponentOf(id), assetOf(id) >>
          w == << winnerOf(id), assetOf(id) >>
      IN /\ (bought[id] = "open" =>
               drawn[id] = Totals(c, betOf(id), o, 0))
         /\ (bought[id] = "pari" =>
               /\ opponentOf(id) \notin {Nil, creatorOf(id)}
               /\ drawn[id] = Totals(c, betOf(id), o, betOf(id)))
         /\ (statusOf(id) = InProgress => paid[id] = Totals(c, 0, o, 0))
         /\ (bought[id] = "pari" /\ statusOf(id) = Finished
               /\ winnerOf(id) # Nil =>
               /\ winnerOf(id) \in {creatorOf(id), opponentOf(id)}
               /\ paid[id] = Totals(w, 2 * betOf(id), c, 0))

\* a wagered game without first-move purchase, won on the board
C6_Witness ==
  /\ last.op = "g_move"
  /\ wagered(last.id)
  /\ bought[last.id] = "pari"
  /\ statusOf(last.id) = Finished
  /\ winnerOf(last.id) = last.sender
  /\ paid[last.id][<< last.sender, assetOf(last.id) >>] = 2 * betOf(last.id)

\* C7: in a wagered game joined with a first-move purchase, bet is drawn
\* from the creator and bet + fmc from the opponent, fmc to the creator is
\* the only payment while the game runs, and when the opponent has won the
\* only payments are that fmc and 2*bet to the opponent.
C7_FmpWinLedger ==
  \A id \in GameIds :
    wagered(id) /\ bought[id] = "fmp" =>
      LET c == << creatorOf(id), assetOf(id) >>
          o == << opponentOf(id), assetOf(id) >>
      IN /\ opponentOf(id) \notin {Nil, creatorOf(id)}
         /\ fmcOf(id) > 0
         /\ drawn[id] = Totals(c, betOf(id), o, betOf(id) + fmcOf(id))
         /\ (statusOf(id) = InProgress =>
               paid[id] = Totals(c, fmcOf(id), o, 0))
         /\ (statusOf(id) = Finished /\ winnerOf(id) = opponentOf(id) =>
               paid[id] = Totals(c, fmcOf(id), o, 2 * betOf(id)))

\* a first-move purchase game the opponent has won on the board
C7_Witness ==
  /\ last.op = "g_move"
  /\ wagered(last.id)
  /\ bought[last.id] = "fmp"
  /\ statusOf(last.id) = Finished
  /\ winnerOf(last.id) = opponentOf(last.id)
  /\ last.sender = opponentOf(last.id)

\* a joined game that ended without winner
drawnGame(id) ==
  /\ meta[id] # None
  /\ statusOf(id) = Finished
  /\ winnerOf(id) = Nil
  /\ opponentOf(id) # Nil

\* C8: a wagered game that ended in a draw has paid bet to the holder of
\* player_x and bet to the holder of player_o and, apart from the first-move
\* fee the creator received at the join, nothing else.
C8_DrawSplit ==
  \A id \in GameIds :
    wagered(id) /\ drawnGame(id) =>
      LET fee(a) == IF bought[id] = "fmp" /\ a = creatorOf(id)
                    THEN fmcOf(id) ELSE 0
      IN /\ holderX(id) # holderO(id)
         /\ paid[id] = Totals(<< holderX(id), assetOf(id) >>,
                              betOf(id) + fee(holderX(id)),
                              << holderO(id), assetOf(id) >>,
                              betOf(id) + fee(holderO(id)))

\* a wagered Tic-Tac-Toe game played to a full board without a line
C8_Witness ==
  \E id \in GameIds :
    /\ wagered(id)
    /\ drawnGame(id)
    /\ last.op = "g_move"
    /\ mvcount[id] = 9
    /\ paid[id][<< holderX(id), assetOf(id) >>] >= betOf(id)
    /\ paid[id][<< holderO(id), assetOf(id) >>] >= betOf(id)

\* C9: a g_join of a wagered game with intent limit l (in thousandths) is a
\* first-move purchase exactly when fmc > 0 and l >= bet + fmc: then
\* bet + fmc is drawn from the joiner, fmc is paid to the creator and the
\* joiner holds player_x; otherwise bet is drawn and the creator holds
\* player_x.
C9_FirstMovePurchaseRule ==
  last.op = "g_join" /\ wagered(last.id) =>
    LET id == last.id
        limit == last.arg[1].limit
        j == << last.sender, assetOf(id) >>
        c == << creatorOf(id), assetOf(id) >>
    IN IF fmcOf(id) > 0 /\ limit >= betOf(id) + fmcOf(id)
       THEN /\ drawn[id] = Totals(c, betOf(id), j, betOf(id) + fmcOf(id))
            /\ paid[id] = Totals(c, fmcOf(id), j, 0)
            /\ holderX(id) = last.sender
            /\ holderO(id) = creatorOf(id)
       ELSE /\ drawn[id] = Totals(c, betOf(id), j, betOf(id))
            /\ paid[id] = Totals(c, 0, j, 0)
            /\ holderX(id) = creatorOf(id)
            /\ holderO(id) = last.sender

\* C10: a g_resign of the creator on a game nobody has joined pays exactly
\* bet to the creator if the game is wagered and nothing otherwise, sets
\* Finished, sets no winner, and the game stays as it is: no g_join on it
\* goes through afterwards.
C10_CancelRefundsOnce ==
  [][\A id \in GameIds :
       /\ (last'.op = "g_resign" /\ last'.id = id /\ holderO(id) = Nil =>
             /\ last'.sender = creatorOf(id)
             /\ statusOf(id)' = Finished
             /\ winnerOf(id)' = Nil
             /\ paid[id] = Totals(<< Nil, Nil >>, 0, << Nil, Nil >>, 0)
             /\ paid'[id] =
                  Totals(<< creatorOf(id), assetOf(id) >>,
                         IF wagered(id) THEN betOf(id) ELSE 0,
                         << Nil, Nil >>, 0))
       /\ (cancelled(id) =>
             /\ ~(last'.op = "g_join" /\ last'.id = id)
             /\ cancelled(id)'
             /\ meta'[id] = meta[id]
             /\ gstate'[id] = gstate[id]
             /\ paid'[id] = paid[id]
             /\ drawn'[id] = drawn[id])]_vars

\* a wagered game cancelled by its creator, the refund being the bet
C10_Witness ==
  /\ last.op = "g_resign"
  /\ last.arg = << FALSE >>
  /\ wagered(last.id)
  /\ cancelled(last.id)
  /\ paid[last.id][<< last.sender, assetOf(last.id) >>] = betOf(last.id)
  /\ betOf(last.id) > 0

\* C11: a g_resign on a joined game that is not Finished comes from the
\* holder of player_x or player_o, makes the other holder the winner, sets
\* Finished, and pays 2*bet to that winner if the game is wagered and
\* nothing otherwise; this holds in the opening and on either one's turn.
C11_ResignOtherWins ==
  [][\A id \in GameIds :
       last'.op = "g_resign" /\ last'.id = id /\ holderO(id) # Nil =>
         LET other == IF last'.sender = holderX(id) THEN holderO(id)
                      ELSE holderX(id)
         IN /\ statusOf(id) = InProgress
            /\ last'.sender \in {holderX(id), holderO(id)}
            /\ other # last'.sender
            /\ winnerOf(id)' = other
            /\ statusOf(id)' = Finished
            /\ holderX(id)' = holderX(id)
            /\ holderO(id)' = holderO(id)
            /\ paid'[id] =
                 [k \in Addr \X Assets |->
                    paid[id][k]
                    + (IF wagered(id) /\ k = << other, assetOf(id) >>
                       THEN 2 * betOf(id) ELSE 0)]]_vars

\* a resignation of the one who is not due, in the opening of a wagered game
C11_Witness ==
  /\ last.op = "g_resign"
  /\ last.arg = << TRUE >>
  /\ wagered(last.id)
  /\ meta[last.id][1].type = Gomoku
  /\ mvcount[last.id] \in 1 .. 2
  /\ last.sender = holderO(last.id)
  /\ winnerOf(last.id) = holderX(last.id)
  /\ paid[last.id][<< holderX(last.id), assetOf(last.id) >>]
       >= 2 * betOf(last.id)

\* ------------------------------------------------------------------- C12
typeOf(id) == meta[id][1].type

\* the mark a cell shows, read off the move records: record n is an X when n
\* is odd and an O when n is even
markAt(id, r, c) ==
  LET ns == { n \in 1 .. mvcount[id] :
                n \in DOMAIN mvrec[id]
                /\ mvrec[id][n].row = r /\ mvrec[id][n].col = c }
  IN IF ns = {} THEN Empty
     ELSE IF (CHOOSE n \in ns : \A m \in ns : m <= n) % 2 = 1 THEN X ELSE O

\* len cells in a row, a column or a diagonal, all showing mark, one of them
\* the cell (r, c)
lineThrough(id, r, c, mark, len) ==
  \E d \in { << 0, 1 >>, << 1, 0 >>, << 1, 1 >>, << 1, -1 >> } :
    \E k \in 0 .. (len - 1) :
      \A i \in 0 .. (len - 1) :
        markAt(id, r + (i - k) * d[1], c + (i - k) * d[2]) = mark

\* the win length of each game type
lengthToWin(gt) ==
  CASE gt = TicTacToe -> 3
    [] gt = TicTacToe5 -> 4
    [] gt = Squava -> 4
    [] gt = ConnectFour -> 4
    [] gt = Gomoku -> 5

\* the game the last call finished with a winner by placing a stone
wonByMove(id) ==
  /\ last.op = "g_move"
  /\ last.id = id
  /\ statusOf(id) = Finished
  /\ winnerOf(id) # Nil

lastRow(id) == mvrec[id][mvcount[id]].row
lastCol(id) == mvrec[id][mvcount[id]].col
moverMark(id) == IF last.sender = holderX(id) THEN X ELSE O

\* the last move closes a line of the win length and its mover is the winner
moverWon(id) ==
  /\ winnerOf(id) = last.sender
  /\ lineThrough(id, lastRow(id), lastCol(id), moverMark(id),
                 lengthToWin(typeOf(id)))

\* Squava only: the last move closes three in a row and no four, and the
\* winner is the one who did not move
moverLostByThree(id) ==
  /\ typeOf(id) = Squava
  /\ winnerOf(id) # last.sender
  /\ winnerOf(id) \in {holderX(id), holderO(id)}
  /\ lineThrough(id, lastRow(id), lastCol(id), moverMark(id), 3)
  /\ ~lineThrough(id, lastRow(id), lastCol(id), moverMark(id), 4)

\* C12: a game that a move finished with a winner was either won by the
\* mover, whose last stone closes a line of the game's win length through
\* the placed cell, or is a Squava game whose mover closed three in a row
\* without four and thereby lost to the other player.
C12_MoveFinishWinner ==
  \A id \in GameIds :
    wonByMove(id) =>
      /\ last.sender \in {holderX(id), holderO(id)}
      /\ moverWon(id) \/ moverLostByThree(id)

\* C12 as worded: every game a move finished with a winner was won by the
\* mover with a line of the win length through the placed cell.
C12_MoverAlwaysWins ==
  \A id \in GameIds : wonByMove(id) => moverWon(id)

\* a Tic-Tac-Toe game won by the stone just placed
C12_WinWitness ==
  /\ wonByMove(last.id)
  /\ typeOf(last.id) = TicTacToe
  /\ moverWon(last.id)
  /\ last.arg[3] = "win"

\* a Squava game lost by the stone just placed
C12_Witness ==
  /\ wonByMove(last.id)
  /\ moverLostByThree(last.id)
  /\ last.arg[3] = "three"

\* ------------------------------------------------------------------- C13

\* C13: in every state, the winner of every game is unset or is the address
\* stored as player_x or the address stored as player_o of that game.
C13_WinnerIsHolder ==
  \A id \in GameIds :
    meta[id] # None /\ winnerOf(id) # Nil =>
      winnerOf(id) \in {holderX(id), holderO(id)}

\* a Gomoku game whose roles were exchanged in the opening and that a
\* resignation or a timeout then gave to the creator, now holder of player_o
C13_Witness ==
  \E id \in GameIds :
    /\ meta[id] # None
    /\ typeOf(id) = Gomoku
    /\ holderO(id) = creatorOf(id)
    /\ fmcOf(id) = 0
    /\ winnerOf(id) = holderO(id)
    /\ statusOf(id) = Finished

\* ------------------------------------------------------------------- C14

\* the cell move record n of game id names
cellOf(id, n) == << mvrec[id][n].row, mvrec[id][n].col >>

\* C14: for every game and every n in 1..MoveCount, the cell of move record
\* n is empty on the board rebuilt from records 1..n-1, and no two records
\* of the game name the same cell.
C14_MovesTargetEmptyCells ==
  \A id \in GameIds :
    meta[id] # None =>
      /\ \A n \in 1 .. mvcount[id] :
           /\ moveStored(id, n)
           /\ reconstructFrom(typeOf(id), mvrec[id], n - 1)[cellOf(id, n)]
                = Empty
      /\ \A n, m \in 1 .. mvcount[id] : n # m => cellOf(id, n) # cellOf(id, m)

\* a Gomoku game of six or more records: opening placements, then normal
\* moves
C14_Witness ==
  \E id \in GameIds :
    /\ meta[id] # None
    /\ typeOf(id) = Gomoku
    /\ mvcount[id] >= 6
    /\ swap2[id] = None
    /\ last.op = "g_move"
    /\ last.id = id

\* ------------------------------------------------------------------- C15

\* the stored move records of game id are exactly records 1..MoveCount
logDense(id) == DOMAIN mvrec[id] = 1 .. mvcount[id]

\* one call leaves every stored record as it is and adds records
\* MoveCount+1.. without a gap: one for g_move, up to three for g_swap
logAppendOnly(id) ==
  /\ mvcount'[id] >= mvcount[id]
  /\ mvcount'[id] - mvcount[id] <= 3
  /\ \A n \in DOMAIN mvrec[id] :
       n \in DOMAIN mvrec'[id] /\ mvrec'[id][n] = mvrec[id][n]
  /\ mvcount'[id] > mvcount[id] =>
       /\ last'.op \in {"g_move", "g_swap"}
       /\ last'.id = id
       /\ last'.op = "g_move" => mvcount'[id] = mvcount[id] + 1

\* C15: in every state the move records of a game are exactly records
\* 1..MoveCount, and every step keeps all stored records unchanged and only
\* appends records after MoveCount.
C15_MoveLogAppendOnly ==
  /\ [](\A id \in GameIds : logDense(id))
  /\ [][\A id \in GameIds : logAppendOnly(id)]_vars

\* a Gomoku game whose fourth and fifth record were appended by g_swap add
C15_Witness ==
  /\ last.op = "g_swap"
  /\ last.arg[1] = "add"
  /\ mvcount[last.id] = 5
  /\ logDense(last.id)

\* ------------------------------------------------------------------- C16

phaseOf(id) == swap2[id][1].Phase

\* the holder of the role that is due in the phase of the opening
dueInOpening(id) ==
  IF phaseOf(id) \in {swap2PhaseOpening, swap2PhaseColorChoice}
  THEN holderX(id) ELSE holderO(id)

\* C17: in every state of an opening next_actor names the X role in Opening
\* and ColorChoice and the O role in SwapChoice and ExtraPlace, and every
\* g_swap that goes through comes from the address that holds that role
\* when the call arrives; a call of any other sender changes nothing.
C17_OnlyNextActorSwaps ==
  /\ [](\A id \in GameIds :
          meta[id] # None /\ openingActive(id) =>
            swap2[id][1].NextActor =
              (IF phaseOf(id) \in {swap2PhaseOpening, swap2PhaseColorChoice}
               THEN 1 ELSE 2))
  /\ [][\A id \in GameIds :
          last'.op = "g_swap" /\ last'.id = id =>
            /\ openingActive(id)
            /\ last'.sender = dueInOpening(id)
            /\ last'.sender =
                 (IF swap2[id][1].NextActor = 1 THEN holderX(id)
                  ELSE holderO(id))]_vars

\* opening stones placed by the joiner, who bought the first move
C17_Witness ==
  /\ last.op = "g_swap"
  /\ last.arg[1] = "place"
  /\ bought[last.id] = "fmp"
  /\ last.sender = opponentOf(last.id)
  /\ last.sender = holderX(last.id)
  /\ last.sender # creatorOf(last.id)

\* ------------------------------------------------------------------- C18

\* how many of the stones of a g_swap call carry colour k
stonesOf(tuples, k) == Cardinality({ i \in 1 .. Len(tuples) : tuples[i][3] = k })

\* the counters and the phase of an opening record fit together: the quota
\* is never exceeded, the phase is SwapChoice or later exactly when 2 X and
\* 1 O were placed, ColorChoice exactly when both extra stones were placed,
\* and the stones counted are the move records of the game
quotaKept(id) ==
  LET st == swap2[id][1]
      initFull == st.InitX = 2 /\ st.InitO = 1
      extraFull == st.ExtraX = 1 /\ st.ExtraO = 1
  IN /\ st.InitX \in 0 .. 2 /\ st.InitO \in 0 .. 1
     /\ st.ExtraX \in 0 .. 1 /\ st.ExtraO \in 0 .. 1
     /\ st.Phase = swap2PhaseOpening =>
          ~initFull /\ st.ExtraX = 0 /\ st.ExtraO = 0
     /\ st.Phase = swap2PhaseSwapChoice =>
          initFull /\ st.NextActor = 2 /\ st.ExtraX = 0 /\ st.ExtraO = 0
     /\ st.Phase = swap2PhaseExtraPlace => initFull /\ ~extraFull
     /\ st.Phase = swap2PhaseColorChoice =>
          initFull /\ extraFull /\ st.NextActor = 1
     /\ mvcount[id] = st.InitX + st.InitO + st.ExtraX + st.ExtraO

\* a place or add that goes through counts each of its stones by colour, in
\* the phase it belongs to
stonesCounted(id) ==
  LET st == swap2[id][1]
      tuples == last'.arg[2]
  IN /\ swap2'[id] # None
     /\ LET after == swap2'[id][1]
        IN IF last'.arg[1] = "place"
           THEN /\ st.Phase = swap2PhaseOpening
                /\ after.InitX = st.InitX + stonesOf(tuples, X)
                /\ after.InitO = st.InitO + stonesOf(tuples, O)
                /\ after.ExtraX = st.ExtraX /\ after.ExtraO = st.ExtraO
                /\ after.Phase \in {swap2PhaseOpening, swap2PhaseSwapChoice}
           ELSE /\ st.Phase = swap2PhaseExtraPlace
                /\ after.ExtraX = st.ExtraX + stonesOf(tuples, X)
                /\ after.ExtraO = st.ExtraO + stonesOf(tuples, O)
                /\ after.InitX = st.InitX /\ after.InitO = st.InitO
                /\ after.Phase \in {swap2PhaseExtraPlace, swap2PhaseColorChoice}

\* C18: an opening never holds more than 2 X and 1 O opening stones nor more
\* than 1 X and 1 O extra stones; it is in SwapChoice, with the O role due,
\* exactly when 2 X and 1 O were placed, and in ColorChoice, with the X role
\* due, exactly when both extra stones were placed; every placement that
\* goes through is counted by its colour.
C18_OpeningQuota ==
  /\ [](\A id \in GameIds :
          meta[id] # None /\ openingActive(id) => quotaKept(id))
  /\ [][\A id \in GameIds :
          /\ last'.op = "g_swap"
          /\ last'.id = id
          /\ last'.arg[1] \in {"place", "add"}
          => stonesCounted(id)]_vars

\* the second extra stone has just moved the opening to ColorChoice
C18_Witness ==
  /\ last.op = "g_swap"
  /\ last.arg[1] = "add"
  /\ swap2[last.id] # None
  /\ swap2[last.id][1].Phase = swap2PhaseColorChoice
  /\ swap2[last.id][1].ExtraX = 1
  /\ swap2[last.id][1].ExtraO = 1
  /\ swap2[last.id][1].NextActor = 1

\* ------------------------------------------------------------------- C19

rolesKept(id) == holderX(id)' = holderX(id) /\ holderO(id)' = holderO(id)
rolesExchanged(id) == holderX(id)' = holderO(id) /\ holderO(id)' = holderX(id)

\* the effect of a decision that went through on game id
decisionEffect(id) ==
  LET what == last'.arg[1]
      which == last'.arg[2]
  IN /\ openingActive(id)
     /\ statusOf(id)' = InProgress
     /\ mvcount'[id] = mvcount[id]
     /\ holderX(id) # holderO(id)
     /\ what = "choose" =>
          /\ phaseOf(id) = swap2PhaseSwapChoice
          /\ which \in {"stay", "swap", "add"}
          /\ which = "stay" => rolesKept(id) /\ swap2'[id] = None
          /\ which = "swap" => rolesExchanged(id) /\ swap2'[id] = None
          /\ which = "add" =>
               /\ rolesKept(id)
               /\ swap2'[id] # None
               /\ swap2'[id][1] =
                    [swap2[id][1] EXCEPT !.Phase = swap2PhaseExtraPlace,
                                         !.NextActor = 2,
                                         !.ExtraX = 0, !.ExtraO = 0]
     /\ what = "color" =>
          /\ phaseOf(id) = swap2PhaseColorChoice
          /\ which \in {1, 2}
          /\ which = 1 => rolesKept(id)
          /\ which = 2 => rolesExchanged(id)
          /\ swap2'[id] = None

\* C19: a choose goes through only in SwapChoice and a color only in
\* ColorChoice; stay and color 1 keep player_x and player_o, swap and color 2
\* exchange them, and each of the four removes the opening record; add keeps
\* the roles and leaves the opening in ExtraPlace with the O role due and
\* both extra counters at zero.
C19_SwapDecisions ==
  [][\A id \in GameIds :
       /\ last'.op = "g_swap"
       /\ last'.id = id
       /\ last'.arg[1] \in {"choose", "color"}
       => decisionEffect(id)]_vars

\* color 2 after the extra stones has handed player_x to the joiner
C19_Witness ==
  /\ last.op = "g_swap"
  /\ last.arg = << "color", 2 >>
  /\ bought[last.id] # "fmp"
  /\ holderX(last.id) = opponentOf(last.id)
  /\ holderO(last.id) = creatorOf(last.id)
  /\ swap2[last.id] = None
  /\ mvcount[last.id] = 5

\* ------------------------------------------------------------------- C20

\* a stored opening record belongs to a Gomoku game in progress
recordInPlace(id) ==
  swap2[id] # None =>
    /\ meta[id] # None
    /\ swap2[id][1].Phase # swap2PhaseNone
    /\ typeOf(id) = Gomoku
    /\ statusOf(id) = InProgress

\* the last call closed the opening of game id or ended the game by
\* resignation or timeout
closesOpening(id) ==
  /\ last'.id = id
  /\ \/ last'.op \in {"g_resign", "g_timeout"}
     \/ /\ last'.op = "g_swap"
        /\ \/ last'.arg[1] = "color"
           \/ last'.arg[1] = "choose" /\ last'.arg[2] \in {"stay", "swap"}

\* C20: in every state a stored Swap2 record has a phase other than None and
\* belongs to a Gomoku game that is InProgress; a decision that completes
\* the opening, a resignation and a timeout leave no record behind, and a
\* record appears only when a game is joined.
C20_Swap2RecordLifetime ==
  /\ [](\A id \in GameIds : recordInPlace(id))
  /\ [][\A id \in GameIds :
          /\ closesOpening(id) => swap2'[id] = None
          /\ swap2[id] = None /\ swap2'[id] # None =>
               last'.op = "g_join" /\ last'.id = id]_vars

\* a timeout claimed in the opening, after a stone was placed, took the
\* record away
C20_Witness ==
  /\ last.op = "g_timeout"
  /\ last.arg = << TRUE >>
  /\ typeOf(last.id) = Gomoku
  /\ mvcount[last.id] >= 1
  /\ statusOf(last.id) = Finished
  /\ swap2[last.id] = None

\* ------------------------------------------------------------------- C21

\* a Gomoku game in progress whose opening is over and whose next record is
\* the fourth or the sixth
firstMoveDue(id) ==
  /\ meta[id] # None
  /\ typeOf(id) = Gomoku
  /\ statusOf(id) = InProgress
  /\ swap2[id] = None
  /\ mvcount[id] \in {3, 5}

\* the last call completed the opening of game id
completesOpening(id) ==
  /\ last'.op = "g_swap"
  /\ last'.id = id
  /\ swap2[id] # None
  /\ swap2'[id] = None

C22_SwapRefreshesLastMove ==
  [][\A id \in GameIds :
       last'.op = "g_swap" /\ last'.id = id => lastMoveTs(id)' = now']_vars

\* the part that does hold: a place or an add leaves the timestamp of its
\* call, while a choose or a color leaves the timestamp as it was
C22_OnlyStonesRefresh ==
  [][\A id \in GameIds :
       last'.op = "g_swap" /\ last'.id = id =>
         IF last'.arg[1] \in {"place", "add"}
         THEN lastMoveTs(id)' = now'
         ELSE lastMoveTs(id)' = lastMoveTs(id)]_vars

\* a decision made at a later block than the last stone
C22_StaleDecision ==
  /\ last.op = "g_swap"
  /\ last.arg[1] = "choose"
  /\ lastMoveTs(last.id) < now

\* ------------------------------------------------------------------- C23

\* C23: a g_join goes through only on a game whose status is
\* WaitingForPlayer and without opponent, from an account other than the
\* creator, who becomes the opponent; the creator never changes and an
\* opponent, once set, stays, so no game is joined twice.
C23_JoinOnce ==
  [][\A id \in GameIds :
       meta[id] # None =>
         /\ last'.op = "g_join" /\ last'.id = id =>
              /\ statusOf(id) = WaitingForPlayer
              /\ opponentOf(id) = Nil
              /\ last'.sender # creatorOf(id)
              /\ opponentOf(id)' = last'.sender
              /\ statusOf(id)' = InProgress
         /\ creatorOf(id)' = creatorOf(id)
         /\ opponentOf(id) # Nil => opponentOf(id)' = opponentOf(id)]_vars

\* a joined game in progress with stones on the board, on which g_join
\* calls of all accounts are on offer
C23_Witness ==
  \E id \in GameIds :
    /\ meta[id] # None
    /\ opponentOf(id) = "bob"
    /\ statusOf(id) = InProgress
    /\ mvcount[id] >= 2
    /\ last.op = "g_move"

\* ------------------------------------------------------------------- C24

\* C24: in every state the games on record are exactly the ids below the
\* game counter; a g_create that goes through returns the counter as the
\* new id, an id without a game until then, and raises the counter by one;
\* no other step moves the counter or adds a game.
C24_IdsDense ==
  /\ [](\A id \in GameIds : meta[id] # None <=> id < gcount)
  /\ [][IF last'.op = "g_create"
        THEN /\ last'.id = gcount
             /\ gcount' = gcount + 1
             /\ meta[gcount] = None
             /\ meta'[gcount] # None
             /\ \A id \in GameIds \ {gcount} : meta'[id] = None <=> meta[id] = None
        ELSE /\ gcount' = gcount
             /\ \A id \in GameIds : meta'[id] = None <=> meta[id] = None]_vars

\* the second game was created after the first one had been joined
C24_Witness ==
  /\ last.op = "g_create"
  /\ last.id = 1
  /\ gcount = 2
  /\ meta[0] # None
  /\ opponentOf(0) # Nil

\* ------------------------------------------------------------------- C25

\* the game ids stored under the waiting-list key: CreateGame, JoinGame and
\* Resign never write that key, so it holds no id in any state
waitingList == {}

\* C25: in every state a game id is in the waiting list iff the status of
\* that game is WaitingForPlayer.
C25_WaitingListTracksStatus ==
  \A id \in GameIds :
    meta[id] # None =>
      (id \in waitingList <=> statusOf(id) = WaitingForPlayer)

\* ------------------------------------------------------------------- C26

\* a Connect Four game on which a move is due
c4Running(id) ==
  /\ meta[id] # None
  /\ typeOf(id) = ConnectFour
  /\ statusOf(id) = InProgress

\* the player whose stone is due on game id
dueHolder(id) == IF mvcount[id] % 2 = 0 THEN holderX(id) ELSE holderO(id)

\* the columns of the board and whether a column has room
c4Cols == 0 .. (boardDimensions(ConnectFour)[2] - 1)
c4Rows == 0 .. (boardDimensions(ConnectFour)[1] - 1)
hasRoom(id, c) == \E r \in c4Rows : markAt(id, r, c) = Empty

\* the row a disc dropped into column c comes to rest in: the empty cell
\* with the largest row index
restRow(id, c) ==
  CHOOSE r \in c4Rows :
    /\ markAt(id, r, c) = Empty
    /\ \A q \in c4Rows : markAt(id, q, c) = Empty => q <= r

\* every g_move on a Connect Four game records the rest row of the column
\* it names, whatever row it names
dropsToRest ==
  [][\A id \in GameIds :
       c4Running(id) /\ last'.op = "g_move" /\ last'.id = id =>
         /\ hasRoom(id, last'.arg[2])
         /\ mvrec'[id][mvcount'[id]].col = last'.arg[2]
         /\ mvrec'[id][mvcount'[id]].row = restRow(id, last'.arg[2])]_vars

\* no disc of a Connect Four board has an empty cell below it
noFloatingDisc ==
  \A id \in GameIds :
    meta[id] # None /\ typeOf(id) = ConnectFour =>
      \A r \in c4Rows, c \in c4Cols :
        markAt(id, r, c) # Empty /\ r + 1 \in c4Rows =>
          markAt(id, r + 1, c) # Empty

\* a move of the due player on column c with row argument r goes through
\* iff column c has room
moveTakenIffRoom(id, rowArgs) ==
  \A c \in c4Cols, r \in rowArgs :
    ENABLED MakeMove(dueHolder(id), id, r, c) <=> hasRoom(id, c)

\* the row arguments tried: the first row, the last row, the first row
\* beyond the board, the largest value of the argument
rowArgsAny == {0, 5, 6, 255}

\* C26: in Connect Four a g_move on column c goes through with any row
\* argument iff the column has an empty cell, the disc is recorded in the
\* lowest empty row of that column, and no disc of any reachable board has
\* an empty cell below it.
C26_GravityAnyRow ==
  /\ dropsToRest
  /\ []noFloatingDisc
  /\ [](\A id \in GameIds : c4Running(id) => moveTakenIffRoom(id, rowArgsAny))

\* the part that holds: every Connect Four move that goes through names a
\* row of the board, lands in the lowest empty row of its column, which had
\* room, and no disc floats
C26_GravityRowOnBoard ==
  /\ dropsToRest
  /\ []noFloatingDisc
  /\ [][\A id \in GameIds :
          c4Running(id) /\ last'.op = "g_move" /\ last'.id = id =>
            last'.arg[1] \in c4Rows]_vars

\* a disc that was sent to a row other than the one it rests in
C26_RowIgnored ==
  /\ last.op = "g_move"
  /\ typeOf(last.id) = ConnectFour
  /\ last.arg[1] # lastRow(last.id)
  /\ mvcount[last.id] >= 3

\* a column that is full
C26_ColumnFull ==
  \E id \in GameIds :
    /\ c4Running(id)
    /\ \E c \in c4Cols : ~hasRoom(id, c)

\* ------------------------------------------------------------------- C27

\* how far the stones of mark reach from cell (r, c) on in direction
\* (dr, dc), the cell itself not counted
reach(id, r, c, dr, dc, mark) ==
  LET ks == { k \in 0 .. 14 :
                \A i \in 1 .. k : markAt(id, r + i * dr, c + i * dc) = mark }
  IN CHOOSE k \in ks : \A j \in ks : j <= k

\* the length of the unbroken run of mark through cell (r, c) along (dr, dc)
runThrough(id, r, c, dr, dc, mark) ==
  1 + reach(id, r, c, dr, dc, mark) + reach(id, r, c, -dr, -dc, mark)

\* the lengths of the four runs through the stone placed last
lastRuns(id) ==
  { runThrough(id, lastRow(id), lastCol(id), d[1], d[2],
               markAt(id, lastRow(id), lastCol(id)))
    : d \in { << 0, 1 >>, << 1, 0 >>, << 1, 1 >>, << 1, -1 >> } }

C27_FiveWins ==
  /\ last.op = "g_move"
  /\ typeOf(last.id) = Gomoku
  /\ 5 \in lastRuns(last.id)
  /\ statusOf(last.id) = Finished
  /\ winnerOf(last.id) = last.sender

\* ------------------------------------------------------------------- C28

\* the Squava game the last call placed a stone in
squavaMoved(id) ==
  /\ meta[id] # None
  /\ typeOf(id) = Squava
  /\ last.op = "g_move"
  /\ last.id = id

\* the stone just placed lies on len cells in a line of its own mark
closes(id, len) ==
  lineThrough(id, lastRow(id), lastCol(id),
              markAt(id, lastRow(id), lastCol(id)), len)

\* the player of the game who did not place the last stone
otherPlayer(id) ==
  IF last.sender = holderX(id) THEN holderO(id) ELSE holderX(id)

\* a finished wagered game has paid the pot of two bets to w and, apart from
\* the first-move fee the creator received at the join, nothing else
potWentTo(id, w) ==
  LET l == IF w = holderX(id) THEN holderO(id) ELSE holderX(id)
      fee(a) == IF bought[id] = "fmp" /\ a = creatorOf(id)
                THEN fmcOf(id) ELSE 0
  IN wagered(id) =>
       paid[id] = Totals(<< w, assetOf(id) >>, 2 * betOf(id) + fee(w),
                         << l, assetOf(id) >>, fee(l))

\* C28: after a Squava move whose stone closes three of the placer's marks
\* in a line and no four, the game is Finished, its winner is the player who
\* did not move and a wagered pot went to that player; after a Squava move
\* whose stone closes four in a line, the game is Finished, its winner is the
\* placer and a wagered pot went to the placer.
C28_SquavaThreeLoses ==
  \A id \in GameIds :
    squavaMoved(id) =>
      /\ last.sender \in {holderX(id), holderO(id)}
      /\ holderX(id) # holderO(id)
      /\ (closes(id, 3) /\ ~closes(id, 4) =>
            /\ statusOf(id) = Finished
            /\ winnerOf(id) = otherPlayer(id)
            /\ potWentTo(id, otherPlayer(id)))
      /\ (closes(id, 4) =>
            /\ statusOf(id) = Finished
            /\ winnerOf(id) = last.sender
            /\ potWentTo(id, last.sender))

\* a wagered Squava game whose placer closed three without four: the pot is
\* with the other player
C28_Witness ==
  /\ squavaMoved(last.id)
  /\ wagered(last.id)
  /\ closes(last.id, 3)
  /\ ~closes(last.id, 4)
  /\ winnerOf(last.id) = otherPlayer(last.id)
  /\ paid[last.id][<< otherPlayer(last.id), assetOf(last.id) >>]
       >= 2 * betOf(last.id)

\* a Squava game whose placer closed four in a line, three of them included,
\* and won
C28_FourWins ==
  /\ squavaMoved(last.id)
  /\ closes(last.id, 4)
  /\ statusOf(last.id) = Finished
  /\ winnerOf(last.id) = last.sender

\* ------------------------------------------------------------------- C29

\* the number of cells of the board of game id
cellsOf(id) ==
  boardDimensions(typeOf(id))[1] * boardDimensions(typeOf(id))[2]

\* the stone stored last decides the game: a line of the win length (for
\* Gomoku a run of exactly five) or, in Squava, three in a line
lastStoneDecides(id) ==
  \/ IF typeOf(id) = Gomoku THEN 5 \in lastRuns(id)
     ELSE closes(id, lengthToWin(typeOf(id)))
  \/ typeOf(id) = Squava /\ closes(id, 3)

\* a joined game whose board is full without the last stone deciding it
fullUndecided(id) ==
  /\ meta[id] # None
  /\ opponentOf(id) # Nil
  /\ mvcount[id] = cellsOf(id)
  /\ ~lastStoneDecides(id)

\* C29: a joined game is Finished with winner unset exactly when its
\* MoveCount is rows x cols and its last stone decided nothing; no game is
\* InProgress with MoveCount at or above rows x cols; and a game becomes
\* drawn only in a successful move on it, the one that filled the board.
C29_DrawAtFullBoard ==
  /\ [](\A id \in GameIds :
          meta[id] # None =>
            /\ opponentOf(id) # Nil => (drawnGame(id) <=> fullUndecided(id))
            /\ statusOf(id) = InProgress => mvcount[id] < cellsOf(id))
  /\ [][\A id \in GameIds :
          meta'[id] # None /\ ~drawnGame(id) /\ drawnGame(id)' =>
            /\ last'.op = "g_move"
            /\ last'.id = id
            /\ last'.arg[3] = "draw"
            /\ mvcount[id] = cellsOf(id) - 1
            /\ mvcount'[id] = cellsOf(id)]_vars

\* a Tic-Tac-Toe game without wager drawn by its ninth stone
C29_Witness ==
  /\ last.op = "g_move"
  /\ drawnGame(last.id)
  /\ ~wagered(last.id)
  /\ mvcount[last.id] = cellsOf(last.id)
  /\ fullUndecided(last.id)

\* a game whose board the last stone filled and which that stone won
C29_FullBoardWin ==
  /\ last.op = "g_move"
  /\ meta[last.id] # None
  /\ mvcount[last.id] = cellsOf(last.id)
  /\ lastStoneDecides(last.id)
  /\ statusOf(last.id) = Finished
  /\ winnerOf(last.id) = last.sender

\* ------------------------------------------------------------------- C30

\* the operation the phase of the opening of game id takes stones with
stoneOp(id) ==
  CASE phaseOf(id) = swap2PhaseOpening -> "place"
    [] phaseOf(id) = swap2PhaseExtraPlace -> "add"
    [] OTHER -> "none"

\* the i-th tuple of a place (extra = FALSE) or add (extra = TRUE) passes the
\* checks when the tuples before it are on the board: its cell is empty, no
\* earlier tuple took it, and with it the stones of its colour stay within
\* the quota of the phase
tupleFits(id, tuples, i, extra) ==
  LET st == swap2[id][1]
      upTo == SubSeq(tuples, 1, i)
  IN /\ boardOf(id)[<< tuples[i][1], tuples[i][2] >>] = Empty
     /\ \A j \in 1 .. (i - 1) :
          << tuples[j][1], tuples[j][2] >> # << tuples[i][1], tuples[i][2] >>
     /\ IF extra
        THEN /\ st.ExtraX + stonesOf(upTo, X) <= 1
             /\ st.ExtraO + stonesOf(upTo, O) <= 1
        ELSE /\ st.InitX + stonesOf(upTo, X) <= 2
             /\ st.InitO + stonesOf(upTo, O) <= 1

\* every tuple of the call passes
allFit(id, tuples, extra) ==
  \A i \in 1 .. Len(tuples) : tupleFits(id, tuples, i, extra)

\* the first tuple passes and a later one is turned down
laterRejected(id, tuples, extra) ==
  /\ Len(tuples) >= 2
  /\ tupleFits(id, tuples, 1, extra)
  /\ ~allFit(id, tuples, extra)

\* the step stored every tuple of the call, in order, behind the records the
\* game had, and changed none of those
allRecorded(id, tuples) ==
  /\ mvcount'[id] = mvcount[id] + Len(tuples)
  /\ \A i \in 1 .. Len(tuples) :
       /\ mvrec'[id][mvcount[id] + i].row = tuples[i][1]
       /\ mvrec'[id][mvcount[id] + i].col = tuples[i][2]
  /\ \A n \in 1 .. mvcount[id] : mvrec'[id][n] = mvrec[id][n]

\* C30: a place or add call is taken exactly when the sender is due in the
\* phase of the operation and every one of its tuples passes the checks; a
\* call that is taken stores all of its stones; so a call with a rejected
\* tuple, the first or a later one, stores none, and during an opening the
\* records of a game change in no other step.
C30_AllOrNothing ==
  /\ [](\A id \in GameIds :
          meta[id] # None /\ openingActive(id) /\ statusOf(id) = InProgress =>
            \A tuples \in StoneInputs(id), op \in {"place", "add"}, s \in Addr :
              ENABLED SwapStones(s, id, op, tuples)
                <=> /\ s = dueInOpening(id)
                    /\ op = stoneOp(id)
                    /\ allFit(id, tuples, op = "add"))
  /\ [][\A id \in GameIds :
          /\ last'.op = "g_swap"
          /\ last'.id = id
          /\ last'.arg[1] \in {"place", "add"}
          => /\ allFit(id, last'.arg[2], last'.arg[1] = "add")
             /\ allRecorded(id, last'.arg[2])]_vars
  /\ [][\A id \in GameIds :
          meta[id] # None /\ openingActive(id)
            /\ (mvcount'[id] # mvcount[id] \/ mvrec'[id] # mvrec[id]) =>
          /\ last'.op = "g_swap"
          /\ last'.id = id
          /\ last'.arg[1] \in {"place", "add"}]_vars

\* an opening in which the player due offers a call whose first tuple
\* passes and whose later tuple is turned down, and the call is not taken
C30_Witness ==
  \E id \in GameIds :
    /\ meta[id] # None
    /\ openingActive(id)
    /\ statusOf(id) = InProgress
    /\ stoneOp(id) # "none"
    /\ \E tuples \in StoneInputs(id) :
         /\ laterRejected(id, tuples, stoneOp(id) = "add")
         /\ ~ENABLED SwapStones(dueInOpening(id), id, stoneOp(id), tuples)

\* a place of three tuples has been taken and stored three stones
C30_AllStored ==
  /\ last.op = "g_swap"
  /\ last.arg[1] = "place"
  /\ Len(last.arg[2]) = 3
  /\ mvcount[last.id] = 3

\* ------------------------------------------------------------------- C31

\* the positions of the tag t in the effects of the last call
placesOf(t) == { i \in 1 .. Len(last.fx) : last.fx[i] = t }

\* the last call drew or transferred tokens
movedFunds == placesOf("draw") \cup placesOf("transfer") # {}

\* a check of the last call ran after one of its draws or transfers
checkedAfterFunds ==
  \E i \in placesOf("draw") \cup placesOf("transfer") :
    \E j \in placesOf("check") : j > i

\* C31 as worded: in every call, no check runs after a token draw or a
\* token transfer of that call.
C31_FundsAfterChecks == ~checkedAfterFunds

\* a wagered game was created: the draw of the bet came before the length
\* checks of saveMetaBinary, and a name one byte over the limit, which the
\* same call would have drawn for, is not accepted
C31_DrawThenCheck ==
  /\ last.op = "g_create"
  /\ placesOf("draw") # {}
  /\ checkedAfterFunds
  /\ gcount < GamesCap
  /\ ENABLED CreateGame(last.sender, last.arg[1], 8, last.arg[2], last.arg[3])
  /\ ~ENABLED CreateGame(last.sender, last.arg[1], nameLimit + 1, last.arg[2],
                         last.arg[3])

\* ------------------------------------------------------------------- C32

\* the positions of the writes of state, meta, move and opening records in
\* the effects of the last call
writesOf ==
  placesOf("meta") \cup placesOf("state") \cup placesOf("move")
  \cup placesOf("moves") \cup placesOf("count") \cup placesOf("swap2")

\* every position of as lies before every position of bs
allBefore(as, bs) == \A i \in as : \A j \in bs : i < j

\* the last call finished a game and paid out
paidOut ==
  /\ last.op \in {"g_move", "g_resign", "g_timeout"}
  /\ placesOf("transfer") # {}

\* C32 as worded: within every call the draws come first, then the writes,
\* then the events, then the transfers; so in every call that ends a game
\* with a payout the state write and the events precede the transfer.
C32_EffectsInOrder ==
  /\ allBefore(placesOf("draw"), writesOf)
  /\ allBefore(writesOf, placesOf("event"))
  /\ allBefore(placesOf("event"), placesOf("transfer"))
  /\ paidOut => allBefore(placesOf("state"), placesOf("transfer"))

\* a move won a wagered game: the pot was transferred before the Finished
\* state was written and before the outcome event
C32_PayoutBeforeState ==
  /\ last.op = "g_move"
  /\ last.arg[3] = "win"
  /\ placesOf("transfer") # {}
  /\ allBefore(placesOf("transfer"), placesOf("state"))
  /\ \E e \in placesOf("event") : allBefore(placesOf("transfer"), {e})

\* a timeout paid a wagered game: the state was written first, but both
\* events came after the transfer
C32_TimeoutPayoutBeforeEvents ==
  /\ last.op = "g_timeout"
  /\ placesOf("transfer") # {}
  /\ allBefore(placesOf("state"), placesOf("transfer"))
  /\ allBefore(placesOf("transfer"), placesOf("event"))

\* a resignation paid a wagered game before it wrote the state
C32_ResignPayoutBeforeState ==
  /\ last.op = "g_resign"
  /\ placesOf("transfer") # {}
  /\ allBefore(placesOf("transfer"), placesOf("state"))

\* ------------------------------------------------------------------- C33

\* game id was joined at some time (the ledger of joins, not the records)
wasJoined(id) == bought[id] # "open"

\* C33: for every game, player_o is set exactly when opponent is set, and
\* that is exactly when the game is InProgress or is Finished after a join;
\* a Waiting game and a game resigned before any join have neither.
C33_OpponentIffJoined ==
  \A id \in GameIds :
    meta[id] # None =>
      /\ (holderO(id) # Nil) <=> (opponentOf(id) # Nil)
      /\ (opponentOf(id) # Nil)
           <=> \/ statusOf(id) = InProgress
               \/ statusOf(id) = Finished /\ wasJoined(id)
      /\ statusOf(id) = WaitingForPlayer =>
           holderO(id) = Nil /\ opponentOf(id) = Nil /\ ~wasJoined(id)
      /\ statusOf(id) = Finished /\ ~wasJoined(id) =>
           holderO(id) = Nil /\ opponentOf(id) = Nil

\* one game was resigned before any join and has neither opponent nor
\* player_o, another was joined, finished and has both
C33_Witness ==
  \E i, j \in GameIds :
    /\ meta[i] # None /\ meta[j] # None
    /\ statusOf(i) = Finished /\ ~wasJoined(i)
    /\ holderO(i) = Nil /\ opponentOf(i) = Nil
    /\ statusOf(j) = Finished /\ wasJoined(j)
    /\ holderO(j) # Nil /\ opponentOf(j) # Nil

\* ------------------------------------------------------------------- C34

RECURSIVE sumOver(_, _)
\* the sum of the entries of ledger f over the keys in S
sumOver(f, S) ==
  IF S = {} THEN 0
  ELSE LET k == CHOOSE k \in S : TRUE
       IN f[k] + sumOver(f, S \ {k})

\* what was drawn for game id and not yet transferred out again
escrow(id) ==
  sumOver(drawn[id], Addr \X Assets) - sumOver(paid[id], Addr \X Assets)

\* C34: for every game, what was drawn for it minus what was transferred
\* out for it is the bet while it is Waiting, twice the bet while it is
\* InProgress and 0 once it is Finished (0 throughout for a game without
\* wager), never negative; and no call changes the drawn or transferred
\* amounts of a Finished game.
C34_EscrowByStatus ==
  /\ [](\A id \in GameIds :
          meta[id] # None =>
            /\ escrow(id) >= 0
            /\ statusOf(id) = WaitingForPlayer => escrow(id) = betOf(id)
            /\ statusOf(id) = InProgress => escrow(id) = 2 * betOf(id)
            /\ statusOf(id) = Finished => escrow(id) = 0)
  /\ [][\A id \in GameIds :
          meta[id] # None /\ statusOf(id) = Finished =>
            paid'[id] = paid[id] /\ drawn'[id] = drawn[id]]_vars

\* a wagered game with a bought first move has been paid out after a
\* timeout: bet and fee went in, fee and pot went out, nothing is left
C34_Witness ==
  /\ last.op = "g_timeout"
  /\ wagered(last.id)
  /\ bought[last.id] = "fmp"
  /\ statusOf(last.id) = Finished
  /\ sumOver(drawn[last.id], Addr \X Assets) = 2 * betOf(last.id) + fmcOf(last.id)
  /\ escrow(last.id) = 0

\* a wagered game in progress holds two bets
C34_InProgressHoldsTwoBets ==
  \E id \in GameIds :
    /\ wagered(id)
    /\ statusOf(id) = InProgress
    /\ mvcount[id] > 0
    /\ escrow(id) = 2 * betOf(id)

\* ------------------------------------------------------------------- C35

\* the last call placed opening or extra stones in game id
stonesPlaced(id) ==
  /\ last.op = "g_swap"
  /\ last.id = id
  /\ last.arg[1] \in {"place", "add"}

\* C35 as worded: after a place or add that went through, the reconstructed
\* board shows every stone of the call with the colour of its tuple.
C35_OpeningColoursKept ==
  \A id \in GameIds :
    stonesPlaced(id) =>
      \A i \in 1 .. Len(last.arg[2]) :
        boardOf(id)[<< last.arg[2][i][1], last.arg[2][i][2] >>]
          = last.arg[2][i][3]

\* a place of two X stones went through and the board shows the second one
\* as O: the move record holds no colour and the replay colours by index
C35_ColourLost ==
  \E id \in GameIds :
    /\ stonesPlaced(id)
    /\ Len(last.arg[2]) >= 2
    /\ last.arg[2][1][3] = X
    /\ last.arg[2][2][3] = X
    /\ boardOf(id)[<< last.arg[2][2][1], last.arg[2][2][2] >>] = O

\* a place in the order X, O, X went through and the board shows it as given
C35_AlternatingKept ==
  \E id \in GameIds :
    /\ stonesPlaced(id)
    /\ mvcount[id] = 3
    /\ Len(last.arg[2]) = 3
    /\ \A i \in 1 .. 3 :
         boardOf(id)[<< last.arg[2][i][1], last.arg[2][i][2] >>]
          = last.arg[2][i][3]

\* ------------------------------------------------------------------- C36

\* C36 as worded: a timeout claim goes through only when at least 604800
\* seconds have passed since the game was joined.
C36_WindowFromJoin ==
  \A id \in GameIds :
    meta[id] # None /\ last.op = "g_timeout" /\ last.id = id =>
      now >= joined[id] + gameTimeout

\* a timeout claim went through in the second of the join, on a game that
\* had waited no longer for its opponent either
C36_TimeoutAtJoin ==
  /\ last.op = "g_timeout"
  /\ mvcount[last.id] = 0
  /\ now = joined[last.id]
  /\ now = born[last.id]
  /\ statusOf(last.id) = Finished

\* once a move is stored the window is the one of the claim: no timeout
\* claim goes through within 604800 seconds of the last stored move
C36_WindowFromLastMove ==
  \A id \in GameIds :
    meta[id] # None /\ last.op = "g_timeout" /\ last.id = id
      /\ mvcount[id] > 0 =>
      /\ now > joined[id] + gameTimeout
      /\ now > mvrec[id][mvcount[id]].delta + gameTimeout

\* ------------------------------------------------------------------- C37

\* the calls that name a game
gameCalls == {"g_join", "g_move", "g_swap", "g_timeout", "g_resign"}

\* the step leaves every record and both ledgers of game id as they are
untouched(id) ==
  /\ meta'[id] = meta[id]
  /\ gstate'[id] = gstate[id]
  /\ mvcount'[id] = mvcount[id]
  /\ mvrec'[id] = mvrec[id]
  /\ swap2'[id] = swap2[id]
  /\ drawn'[id] = drawn[id]
  /\ paid'[id] = paid[id]

\* C37: no call on a Finished game goes through, whoever sends it: no join,
\* move, swap, timeout or resign on it is taken; and no step changes its
\* status, winner, roles, move log, opening record or ledgers.
C37_FinishedIsTerminal ==
  /\ [][\A id \in GameIds :
          meta[id] # None /\ statusOf(id) = Finished =>
            /\ untouched(id)
            /\ ~(last'.op \in gameCalls /\ last'.id = id)]_vars
  /\ [](\A id \in GameIds :
          meta[id] # None /\ statusOf(id) = Finished =>
            \A s \in Addr :
              /\ ~ENABLED Resign(s, id)
              /\ ~ENABLED ClaimTimeout(s, id)
              /\ \A i \in JoinIntents : ~ENABLED JoinGame(s, id, i)
              /\ \A c \in {"swap", "stay", "add"} :
                   ~ENABLED SwapDecide(s, id, "choose", c))

\* a game was won on the board and another game went on after it
C37_Witness ==
  \E id \in GameIds :
    /\ meta[id] # None
    /\ statusOf(id) = Finished
    /\ winnerOf(id) # Nil
    /\ mvcount[id] > 0
    /\ last.op \in gameCalls
    /\ last.id # id

\* ------------------------------------------------------------------- C38

\* the step is a call on game id that hands out or exchanges the roles: a
\* join, or a swap decision
rolesDealt(id) ==
  /\ last'.id = id
  /\ \/ last'.op = "g_join"
     \/ last'.op = "g_swap" /\ last'.arg[1] \in {"choose", "color"}

\* C38: in every state a joined game has player_x and player_o different
\* and, as a set, equal to creator and opponent; the creator of a game never
\* changes and its opponent never changes once set; a join, with or without
\* first-move purchase, and a swap decision leave the stored moves and their
\* count as they are, and a swap decision leaves the meta record as it is.
C38_RolesOrthogonal ==
  /\ [](\A id \in GameIds :
          meta[id] # None /\ opponentOf(id) # Nil =>
            /\ holderX(id) # holderO(id)
            /\ creatorOf(id) # opponentOf(id)
            /\ {holderX(id), holderO(id)} = {creatorOf(id), opponentOf(id)})
  /\ [][\A id \in GameIds :
          meta[id] # None =>
            /\ creatorOf(id)' = creatorOf(id)
            /\ opponentOf(id) # Nil => opponentOf(id)' = opponentOf(id)
            /\ rolesDealt(id) =>
                 /\ mvrec'[id] = mvrec[id]
                 /\ mvcount'[id] = mvcount[id]
                 /\ last'.op = "g_swap" => meta'[id] = meta[id]]_vars

\* a game joined with a first-move purchase, in which the opening then
\* exchanged the roles back: the creator holds player_x again, the stored
\* opening stones are the three that were placed
C38_Witness ==
  /\ last.op = "g_swap"
  /\ last.arg[1] = "choose"
  /\ bought[last.id] = "fmp"
  /\ holderX(last.id) = creatorOf(last.id)
  /\ holderO(last.id) = opponentOf(last.id)
  /\ mvcount[last.id] = 3

\* ------------------------------------------------------------------- C39

\* the addresses that take part in game id
participants(id) == {creatorOf(id), opponentOf(id)} \ {Nil}

\* a resignation by s is enabled that finishes game id and leaves nothing
\* of what was drawn for it
canCashOut(s, id) ==
  ENABLED (/\ Resign(s, id)
           /\ statusOf(id)' = Finished
           /\ escrow(id)' = 0)

\* C39: in every state every game that is not Finished can be finished by
\* a resignation of each of its participants, and that resignation pays out
\* all that was drawn for the game and not yet transferred.
C39_NoLockedFunds ==
  \A id \in GameIds :
    meta[id] # None /\ statusOf(id) # Finished =>
      /\ participants(id) # {}
      /\ \A s \in participants(id) : canCashOut(s, id)

\* a wagered Gomoku game in the last phase of the opening, the colour
\* choice, holds two bets and a participant can resign it for the whole pot
C39_Witness ==
  \E id \in GameIds :
    /\ wagered(id)
    /\ statusOf(id) = InProgress
    /\ openingActive(id)
    /\ phaseOf(id) = swap2PhaseColorChoice
    /\ escrow(id) = 2 * betOf(id)
    /\ \E s \in participants(id) : canCashOut(s, id)

\* a wagered game that waits for an opponent can be cancelled for a refund
C39_WaitingRefund ==
  \E id \in GameIds :
    /\ wagered(id)
    /\ statusOf(id) = WaitingForPlayer
    /\ escrow(id) = betOf(id)
    /\ canCashOut(creatorOf(id), id)

\* ------------------------------------------------------------------- C40

\* C40: a join, move, swap, timeout or resign on game i leaves the meta,
\* state, move count, move records, opening record and ledgers of every
\* other game, and the game counter, as they are; a create changes the
\* counter, writes the meta record of the new id, draws for the new id, and
\* leaves every other game and the state, moves and opening record of the
\* new id as they are.
C40_GamesIsolated ==
  [][/\ last'.op \in gameCalls =>
          /\ gcount' = gcount
          /\ \A j \in GameIds : j # last'.id => untouched(j)
     /\ last'.op = "g_create" =>
          /\ last'.id = gcount
          /\ gcount' = gcount + 1
          /\ meta[last'.id] = None /\ meta'[last'.id] # None
          /\ \A j \in GameIds : j # gcount => untouched(j)
          /\ \A j \in GameIds :
               j = gcount =>
                 /\ gstate'[j] = gstate[j]
                 /\ mvcount'[j] = mvcount[j]
                 /\ mvrec'[j] = mvrec[j]
                 /\ swap2'[j] = swap2[j]
                 /\ paid'[j] = paid[j]]_vars

\* while one game is in progress with stones on the board, a second game
\* has been created, joined and played in
C40_Witness ==
  \E i, j \in GameIds :
    /\ i # j
    /\ meta[i] # None /\ meta[j] # None
    /\ statusOf(i) = InProgress /\ mvcount[i] > 0
    /\ last.op = "g_move" /\ last.id = j
    /\ mvcount[j] > 0

====
